---- MODULE Spec2Model ----
(***************************************************************************)
(* FrameBOX: appointment form with service line items, the calendar page,  *)
(* the dashboard aggregator and the relational store behind them.          *)
(*                                                                         *)
(* Modelling conventions                                                   *)
(*  - A store call is one step: the store executes it and the awaiting     *)
(*    handler resumes, running up to its next await.  A failed call has no *)
(*    effect on the store and resolves with its error field set (the       *)
(*    handlers read `{ data, error }`; no call rejects its promise).       *)
(*  - Money is an integer number of cents.                                 *)
(*  - A datetime-local form value is <<y, m, d, h>>, a date is <<y, m, d>>,*)
(*    a stored timestamp is [date |-> <<y,m,d>>, hour |-> h]; the browser  *)
(*    and the store session share one time zone.                           *)
(*  - Pass-through text fields (title, description, location, end_date)    *)
(*    are not carried.                                                     *)
(***************************************************************************)
EXTENDS Integers, Sequences, FiniteSets, TLC

\* ---------------------------------------------------------------- bounds
MaxItems == 2       \* longest in-memory line-item list
MaxAppts == 3       \* appointment rows ever inserted (ids are never reused)
MaxClicks == 4      \* user actions in one session of the page
MaxTerm == 3        \* longest search term typed into the clients search box

\* ------------------------------------------------------------ value sets
NULL == "null"
Statuses == {"scheduled", "completed", "cancelled"}
ServiceIds == {"s1", "s2"}
ClientIds == {"c1"}
\* services seeded by the schema, prices scaled down
SeedServices == [s \in ServiceIds |-> IF s = "s1" THEN 3 ELSE 5]
DateTimes == {<<2025, 1, 10, 10>>, <<2025, 1, 31, 23>>}
\* the ids gen_random_uuid() gives out, in the order it gives them
ClientIdPool == <<"c1", "c2", "c3", "c4", "c5">>
ServiceIdPool == <<"s1", "s2", "s3", "s4", "s5">>

NoService == [id |-> "", base_price |-> 0]
NoAppointment == [id |-> 0, status |-> "", client_id |-> "", start_date |-> [date |-> <<>>, hour |-> 0]]

VARIABLES
  \* the store
  db_appointments,          \* id -> [status, client_id, start_date]
  db_appointment_services,  \* sequence of [appointment_id, service_id, price, quantity]
  db_transactions,          \* sequence of [id, type, amount, category_id, client_id,
                            \*              transaction_date]
  db_services,              \* id -> base_price
  db_clients,               \* id -> name
  db_nextId,                \* next generated appointment id
  db_nextTransactionId,     \* next generated transaction id
  db_nextClientId,          \* position in ClientIdPool of the next generated client id
  db_nextServiceId,         \* position in ServiceIdPool of the next generated service id
  \* CalendarPage state
  appointments,             \* id -> row as fetched
  pageLoading,              \* CalendarPage's loading
  isDialogOpen,
  editingAppointment,
  listFetches,              \* fetchAppointments calls in flight
  deletes,                  \* handleDelete calls in flight (appointment ids)
  \* AppointmentDialog state
  clients,
  services,                 \* loaded services: id -> base_price
  loading,
  formData,                 \* [client_id, start_date, status]
  appointmentServices,      \* sequence of [service_id, price, quantity, service]
  dataLoads,                \* fetchData calls in flight
  itemLoads,                \* fetchAppointmentServices calls in flight (appointment ids)
  \* handleSubmit in flight
  pc,                       \* the await handleSubmit is suspended at, or "idle"
  sub,                      \* what the running handleSubmit closed over
  request,                  \* the store call it awaits: [op, arg]
  calls,                    \* store calls the running handleSubmit has issued: [op, res]
  toast,                    \* the notification the last handleSubmit showed
  clicks,                   \* user actions so far
  \* Dashboard state
  now,                      \* new Date() of the running fetchDashboardStats
  stats,                    \* the DashboardStats record on display
  dashLoading,              \* Dashboard's loading
  dashPc,                   \* the await fetchDashboardStats is suspended at, or "idle"
  dashCalls,                \* store queries it has issued: [op, res]
  dashData,                 \* the query results it holds
  \* the router and the mounted CRUD page (CashFlow, Clients or Services)
  route,                    \* the path whose page is mounted
  records,                  \* its list: transactions, clients or services
  categories,               \* CashFlow's categories
  searchTerm,               \* Clients' searchTerm, a sequence of characters
  rowsLoading,              \* its loading
  rowDialogOpen,            \* its isDialogOpen
  editingRow,               \* its editingTransaction / editingClient / editingService:
                            \* <<>> for null, <<row>> for a row
  rowForm,                  \* its (or ServiceDialog's) formData
  dialogLoading,            \* ServiceDialog's loading
  rowFetches,               \* fetches of the list in flight
  rowCalls,                 \* store writes in flight: [op, id, data]
  rowToast,                 \* the last notification shown
  \* AuthProvider and LoginForm
  isAuthenticated,
  storage,                  \* localStorage's value for "framebox-auth", NULL when absent
  authStarted,              \* AuthProvider's useEffect has run
  email,                    \* LoginForm's email
  password,                 \* LoginForm's password
  authToast                 \* the last notification of login / logout

dbVars == <<db_appointments, db_appointment_services, db_transactions,
            db_services, db_clients, db_nextId, db_nextTransactionId,
            db_nextClientId, db_nextServiceId>>
pageVars == <<appointments, pageLoading, isDialogOpen, editingAppointment,
              listFetches, deletes>>
formVars == <<formData, appointmentServices>>
dlgVars == <<clients, services, loading, dataLoads, itemLoads>>
saveVars == <<pc, sub, request, calls, toast>>
calendarVars == <<pageVars, formVars, dlgVars, saveVars, clicks>>
dashVars == <<now, stats, dashLoading, dashPc, dashCalls, dashData>>
crudVars == <<route, records, categories, searchTerm, rowsLoading, rowDialogOpen, editingRow, rowForm,
              dialogLoading, rowFetches, rowCalls, rowToast>>
authVars == <<isAuthenticated, storage, authStarted, email, password, authToast>>
vars == <<dbVars, calendarVars, dashVars, crudVars, authVars>>

\* ------------------------------------------------------------- helpers
RECURSIVE SumSeq(_)
SumSeq(s) == IF s = <<>> THEN 0 ELSE Head(s) + SumSeq(Tail(s))

RemoveAt(s, i) == [j \in 1..(Len(s) - 1) |-> IF j < i THEN s[j] ELSE s[j + 1]]

\* ---------------------------------------------- line items (AppointmentDialog)
EmptyForm == [client_id |-> "", start_date |-> <<>>, status |-> "scheduled"]

NewItem == [service_id |-> "", price |-> 0, quantity |-> 1, service |-> NoService]

\* addService
addService ==
  /\ isDialogOpen
  /\ Len(appointmentServices) < MaxItems
  /\ appointmentServices' = Append(appointmentServices, NewItem)
  /\ UNCHANGED <<dbVars, pageVars, formData, dlgVars, saveVars>>

\* removeService(index): filter((_, i) => i !== index)
removeService(index) ==
  /\ isDialogOpen
  /\ index \in 1..Len(appointmentServices)
  /\ appointmentServices' = RemoveAt(appointmentServices, index)
  /\ UNCHANGED <<dbVars, pageVars, formData, dlgVars, saveVars>>

\* services.find(s => s.id === value)
FindService(value) ==
  IF value \in DOMAIN services
    THEN [id |-> value, base_price |-> services[value]]
    ELSE NoService

\* an update that refreshes the price from the cached service on every edit
UpdatedServicesRefreshing(list, index, field, value) ==
  LET set == [list[index] EXCEPT ![field] = value]
      service == IF field = "service_id" THEN FindService(value) ELSE set.service
      item == IF service # NoService
                THEN [set EXCEPT !.price = service.base_price, !.service = service]
                ELSE set
  IN [list EXCEPT ![index] = item]

\* the list updateService(index, field, value) stores
UpdatedServices(list, index, field, value) ==
  LET set == [list[index] EXCEPT ![field] = value]
      service == FindService(value)
      item == IF field = "service_id" /\ service # NoService
                THEN [set EXCEPT !.price = service.base_price, !.service = service]
                ELSE set
  IN [list EXCEPT ![index] = item]

updateService(index, field, value) ==
  /\ isDialogOpen
  /\ index \in 1..Len(appointmentServices)
  /\ appointmentServices' = UpdatedServices(appointmentServices, index, field, value)
  /\ UNCHANGED <<dbVars, pageVars, formData, dlgVars, saveVars>>

\* the text of a number input: <<>> when it holds no number, else <<n>>
\* parseInt(e.target.value) || 1
ParseQuantity(raw) == IF raw = <<>> \/ raw[1] = 0 THEN 1 ELSE raw[1]
\* parseFloat(e.target.value) || 0
ParsePrice(raw) == IF raw = <<>> THEN 0 ELSE raw[1]

RECURSIVE Reduce(_, _)
Reduce(list, total) ==
  IF list = <<>> THEN total
  ELSE Reduce(Tail(list), total + (Head(list).price * Head(list).quantity))

\* a total that forgets the quantity
getTotalValuePriceOnly(list) == SumSeq([i \in 1..Len(list) |-> list[i].price])

\* getTotalValue: reduce((total, item) => total + item.price * item.quantity, 0)
getTotalValue(list) == Reduce(list, 0)

\* ------------------------------------------------------------ the store
\* what the form sends for a timestamptz column, as the store keeps it
ParseTimestamp(local) == [date |-> <<local[1], local[2], local[3]>>, hour |-> local[4]]
\* format(new Date(ts), "yyyy-MM-dd'T'HH:mm")
FormatLocal(ts) == <<ts.date[1], ts.date[2], ts.date[3], ts.hour>>
\* format(new Date(local), "yyyy-MM-dd")
FormatDate(local) == <<local[1], local[2], local[3]>>

\* value || null
OrNull(value) == IF value = "" THEN NULL ELSE value
\* value || ""
OrEmpty(value) == IF value = NULL THEN "" ELSE value

\* a CHECK that leaves cancelled out
AppointmentAcceptedNoCancelled(row) == row.status \in {"scheduled", "completed"}

\* appointments.status CHECK (status IN ('scheduled', 'completed', 'cancelled'))
AppointmentAccepted(row) == row.status \in Statuses

\* appointments: UPDATE ... WHERE id = $id (no row: no error, no change)
DbUpdateAppointment(id, row) ==
  IF id \in DOMAIN db_appointments
    THEN [db_appointments EXCEPT ![id] = row]
    ELSE db_appointments

\* an insert that returns the row the table already holds
DbInsertAppointmentOnce(row) ==
  IF \E i \in DOMAIN db_appointments : db_appointments[i] = row
    THEN db_appointments
    ELSE [i \in DOMAIN db_appointments \cup {db_nextId} |->
            IF i = db_nextId THEN row ELSE db_appointments[i]]

\* appointments: INSERT ... RETURNING *, id from gen_random_uuid()
DbInsertAppointment(row) ==
  [i \in DOMAIN db_appointments \cup {db_nextId} |->
     IF i = db_nextId THEN row ELSE db_appointments[i]]

\* appointment_services: DELETE ... WHERE appointment_id = $id
DbDeleteServicesOf(id) ==
  SelectSeq(db_appointment_services, LAMBDA r : r.appointment_id # id)

\* appointment_services.appointment_id REFERENCES appointments(id),
\* appointment_services.service_id REFERENCES services(id) (a uuid: "" is rejected)
ServiceRowsAccepted(rows) ==
  \A i \in 1..Len(rows) :
    /\ rows[i].appointment_id \in DOMAIN db_appointments
    /\ rows[i].service_id \in DOMAIN db_services

\* transactions: INSERT; id from gen_random_uuid(), an absent category_id is null
\* an insert that skips a row the table already holds
DbInsertTransactionOnce(row) ==
  IF \E i \in 1..Len(db_transactions) :
       /\ db_transactions[i].type = row.type
       /\ db_transactions[i].amount = row.amount
       /\ db_transactions[i].client_id = row.client_id
       /\ db_transactions[i].transaction_date = row.transaction_date
    THEN db_transactions
    ELSE Append(db_transactions,
           [id |-> db_nextTransactionId, type |-> row.type, amount |-> row.amount,
            category_id |-> (IF "category_id" \in DOMAIN row THEN row.category_id ELSE NULL),
            client_id |-> row.client_id, transaction_date |-> row.transaction_date])

DbInsertTransaction(row) ==
  Append(db_transactions,
         [id |-> db_nextTransactionId, type |-> row.type, amount |-> row.amount,
          category_id |-> (IF "category_id" \in DOMAIN row THEN row.category_id ELSE NULL),
          client_id |-> row.client_id, transaction_date |-> row.transaction_date])

\* transactions.client_id REFERENCES clients(id), nullable
TransactionAccepted(row) == row.client_id = NULL \/ row.client_id \in DOMAIN db_clients

\* a foreign key without ON DELETE CASCADE that is not enforced either
DbNoCascade(id) == db_appointment_services

\* appointments: DELETE ... WHERE id = $id; appointment_services rows go with it
\* (appointment_id ... ON DELETE CASCADE)
DbCascade(id) == DbDeleteServicesOf(id)

DbDeleteAppointment(id) ==
  [i \in DOMAIN db_appointments \ {id} |-> db_appointments[i]]

\* SELECT *, services (*) FROM appointment_services WHERE appointment_id = $id
DbSelectServicesOf(id) ==
  SelectSeq(db_appointment_services, LAMBDA r : r.appointment_id = id)

\* ----------------------------------------------------------- CalendarPage
\* fetchAppointments resolves: setAppointments(data) or the error toast; finally
\* setLoading(false)
FetchAppointmentsResolve(ok) ==
  /\ listFetches > 0
  /\ listFetches' = listFetches - 1
  /\ appointments' = IF ok
       THEN [i \in DOMAIN db_appointments |->
               [id |-> i, status |-> db_appointments[i].status,
                client_id |-> db_appointments[i].client_id,
                start_date |-> db_appointments[i].start_date]]
       ELSE appointments
  /\ pageLoading' = FALSE
  /\ UNCHANGED <<dbVars, isDialogOpen, editingAppointment, deletes, formVars,
                 dlgVars, saveVars>>

\* an open that starts the edit from an empty list
OpenEffectClearing(appointment) ==
  /\ dataLoads' = dataLoads + 1
  /\ appointmentServices' = <<>>
  /\ IF appointment # NoAppointment
       THEN /\ formData' = [client_id |-> OrEmpty(appointment.client_id),
                            start_date |-> FormatLocal(appointment.start_date),
                            status |-> appointment.status]
            /\ itemLoads' = Append(itemLoads, appointment.id)
       ELSE /\ formData' = EmptyForm
            /\ UNCHANGED itemLoads

\* the dialog's useEffect on [open, appointment], run with open = true
OpenEffect(appointment) ==
  /\ dataLoads' = dataLoads + 1
  /\ IF appointment # NoAppointment
       THEN /\ formData' = [client_id |-> OrEmpty(appointment.client_id),
                            start_date |-> FormatLocal(appointment.start_date),
                            status |-> appointment.status]
            /\ itemLoads' = Append(itemLoads, appointment.id)
            /\ UNCHANGED appointmentServices
       ELSE \* resetForm
            /\ formData' = EmptyForm
            /\ appointmentServices' = <<>>
            /\ UNCHANGED itemLoads

\* handleEdit(appointment), from a card of the list
handleEdit(id) ==
  /\ ~isDialogOpen
  /\ id \in DOMAIN appointments
  /\ editingAppointment' = appointments[id]
  /\ isDialogOpen' = TRUE
  /\ OpenEffect(appointments[id])
  /\ UNCHANGED <<dbVars, appointments, pageLoading, listFetches, deletes,
                 clients, services, loading, saveVars>>

\* the empty-state button: onClick={() => setIsDialogOpen(true)}
\* (shown when the list is loaded and empty; the header button has no handler)
EmptyStateAdd ==
  /\ ~isDialogOpen
  /\ ~pageLoading
  /\ DOMAIN appointments = {}
  /\ isDialogOpen' = TRUE
  /\ OpenEffect(editingAppointment)
  /\ UNCHANGED <<dbVars, appointments, pageLoading, editingAppointment,
                 listFetches, deletes, clients, services, loading, saveVars>>

\* the dialog's own close (Esc, overlay, X): onOpenChange(false)
CloseDialog ==
  /\ isDialogOpen
  /\ isDialogOpen' = FALSE
  /\ UNCHANGED <<dbVars, appointments, pageLoading, editingAppointment,
                 listFetches, deletes, formVars, dlgVars, saveVars>>

\* handleDelete(id), confirmed: the delete is sent
handleDelete(id) ==
  /\ ~isDialogOpen
  /\ id \in DOMAIN appointments
  /\ deletes' = Append(deletes, id)
  /\ UNCHANGED <<dbVars, appointments, pageLoading, isDialogOpen,
                 editingAppointment, listFetches, formVars, dlgVars, saveVars>>

\* what the store holds after DELETE FROM appointments WHERE id = $id
AppointmentDeleted(id) ==
  /\ db_appointments' = DbDeleteAppointment(id)
  /\ db_appointment_services' = DbCascade(id)

\* handleDelete resumes: success toast and fetchAppointments(), or the error toast
handleDeleteResolve(k, ok) ==
  /\ k \in 1..Len(deletes)
  /\ deletes' = RemoveAt(deletes, k)
  /\ IF ok
       THEN /\ AppointmentDeleted(deletes[k])
            /\ listFetches' = listFetches + 1
       ELSE UNCHANGED <<db_appointments, db_appointment_services, listFetches>>
  /\ UNCHANGED <<db_transactions, db_services, db_clients, db_nextId,
                 db_nextTransactionId, db_nextClientId, db_nextServiceId,
                 appointments, pageLoading, isDialogOpen, editingAppointment,
                 formVars, dlgVars, saveVars>>

\* ------------------------------------------------- AppointmentDialog loads
\* fetchData resolves: setClients / setServices, or the error toast
fetchDataResolve(ok) ==
  /\ dataLoads > 0
  /\ dataLoads' = dataLoads - 1
  /\ IF ok
       THEN clients' = DOMAIN db_clients /\ services' = db_services
       ELSE UNCHANGED <<clients, services>>
  /\ UNCHANGED <<dbVars, pageVars, formVars, loading, itemLoads, saveVars>>

\* a load that takes the price from the joined service
LoadedServicesAtBasePrice(rows) ==
  [i \in 1..Len(rows) |->
     [service_id |-> rows[i].service_id, price |-> db_services[rows[i].service_id],
      quantity |-> rows[i].quantity,
      service |-> [id |-> rows[i].service_id,
                   base_price |-> db_services[rows[i].service_id]]]]

\* data.map(item => ({service_id, price, quantity, service: item.services}))
LoadedServices(rows) ==
  [i \in 1..Len(rows) |->
     [service_id |-> rows[i].service_id, price |-> rows[i].price,
      quantity |-> rows[i].quantity,
      service |-> [id |-> rows[i].service_id,
                   base_price |-> db_services[rows[i].service_id]]]]

\* a load that is dropped once the dialog has moved on from its appointment
fetchAppointmentServicesResolveCurrent(k, ok) ==
  /\ k \in 1..Len(itemLoads)
  /\ itemLoads' = RemoveAt(itemLoads, k)
  /\ appointmentServices' =
       IF ok /\ isDialogOpen /\ editingAppointment.id = itemLoads[k]
         THEN LoadedServices(DbSelectServicesOf(itemLoads[k]))
         ELSE appointmentServices
  /\ UNCHANGED <<dbVars, pageVars, formData, clients, services, loading,
                 dataLoads, saveVars>>

\* fetchAppointmentServices(appointmentId) resolves: setAppointmentServices(...)
\* or console.error
fetchAppointmentServicesResolve(k, ok) ==
  /\ k \in 1..Len(itemLoads)
  /\ itemLoads' = RemoveAt(itemLoads, k)
  /\ appointmentServices' =
       IF ok THEN LoadedServices(DbSelectServicesOf(itemLoads[k]))
             ELSE appointmentServices
  /\ UNCHANGED <<dbVars, pageVars, formData, clients, services, loading,
                 dataLoads, saveVars>>

\* form fields: onChange / onValueChange
setStatus(value) ==
  /\ isDialogOpen
  /\ formData' = [formData EXCEPT !.status = value]
  /\ UNCHANGED <<dbVars, pageVars, appointmentServices, dlgVars, saveVars>>

setClient(value) ==
  /\ isDialogOpen
  /\ value \in clients
  /\ formData' = [formData EXCEPT !.client_id = value]
  /\ UNCHANGED <<dbVars, pageVars, appointmentServices, dlgVars, saveVars>>

setStartDate(value) ==
  /\ isDialogOpen
  /\ formData' = [formData EXCEPT !.start_date = value]
  /\ UNCHANGED <<dbVars, pageVars, appointmentServices, dlgVars, saveVars>>


\* a validation without the quantity and price minimums
FormValidNoMin == formData.start_date # <<>>

\* ------------------------------------------------------------ handleSubmit
\* the browser's constraint validation of the form (required, min="1", min="0")
FormValid ==
  /\ formData.start_date # <<>>
  /\ \A i \in 1..Len(appointmentServices) :
       appointmentServices[i].quantity >= 1 /\ appointmentServices[i].price >= 0

\* appointmentData = {...formData, client_id: formData.client_id || null}
AppointmentData(form) ==
  [status |-> form.status, client_id |-> OrNull(form.client_id),
   start_date |-> ParseTimestamp(form.start_date)]

\* servicesData = appointmentServices.map(service => ({appointment_id, ...}))
ServicesData(appointmentId, list) ==
  [i \in 1..Len(list) |->
     [appointment_id |-> appointmentId, service_id |-> list[i].service_id,
      price |-> list[i].price, quantity |-> list[i].quantity]]

\* transactionData
TransactionData(form, list) ==
  [type |-> "income", amount |-> getTotalValue(list),
   client_id |-> OrNull(form.client_id),
   transaction_date |-> FormatDate(form.start_date)]

\* a condition that forgets the list
WantsTransactionAnyList(form, list) == form.status = "completed"

\* formData.status === "completed" && appointmentServices.length > 0
WantsTransaction(form, list) == form.status = "completed" /\ Len(list) > 0

\* appointmentServices.length > 0
WantsServices(list) == Len(list) > 0

NoSubmit == [appointment |-> NoAppointment, formData |-> EmptyForm,
             appointmentServices |-> <<>>, appointmentId |-> 0]
NoRequest == [op |-> "none", arg |-> <<>>]

Settle(log, res) == [log EXCEPT ![Len(log)].res = res]

\* the handler sends a store call and suspends on it
Await(log, op, arg) ==
  /\ pc' = op
  /\ request' = [op |-> op, arg |-> arg]
  /\ calls' = Append(log, [op |-> op, res |-> "pending"])
  /\ UNCHANGED <<toast, loading, isDialogOpen, listFetches>>

\* the success toast, onOpenChange(false), onSave(); finally setLoading(false);
\* the calls stay on record until the next submit
Finish(log) ==
  /\ pc' = "idle"
  /\ request' = NoRequest
  /\ calls' = log
  /\ toast' = "success"
  /\ isDialogOpen' = FALSE
  /\ listFetches' = listFetches + 1
  /\ loading' = FALSE

\* a catch without the finally block
CatchStillLoading(log) ==
  /\ pc' = "idle"
  /\ request' = NoRequest
  /\ calls' = log
  /\ toast' = "error"
  /\ UNCHANGED <<isDialogOpen, listFetches, loading>>

\* catch: the error toast; finally setLoading(false)
Catch(log) ==
  /\ pc' = "idle"
  /\ request' = NoRequest
  /\ calls' = log
  /\ toast' = "error"
  /\ loading' = FALSE
  /\ UNCHANGED <<isDialogOpen, listFetches>>

\* lines 236-265, entered with the calls so far
AfterServices(log) ==
  IF WantsTransaction(sub.formData, sub.appointmentServices)
    THEN Await(log, "insert_transaction",
               TransactionData(sub.formData, sub.appointmentServices))
    ELSE Finish(log)

\* a handler that records the income before it stores the line items
AfterAppointmentIncomeFirst(log, appointmentId) ==
  IF WantsTransaction(sub.formData, sub.appointmentServices)
    THEN Await(log, "insert_transaction",
               TransactionData(sub.formData, sub.appointmentServices))
    ELSE IF WantsServices(sub.appointmentServices)
      THEN Await(log, "insert_services",
                 ServicesData(appointmentId, sub.appointmentServices))
      ELSE Finish(log)

\* lines 220-234, entered with appointmentId set
AfterAppointment(log, appointmentId) ==
  IF WantsServices(sub.appointmentServices)
    THEN Await(log, "insert_services",
               ServicesData(appointmentId, sub.appointmentServices))
    ELSE AfterServices(log)

\* lines 193-218: the first store call of the handler
FirstCall(appointment, form) ==
  IF appointment # NoAppointment
    THEN [op |-> "update_appointment",
          arg |-> [id |-> appointment.id, data |-> AppointmentData(form)]]
    ELSE [op |-> "insert_appointment", arg |-> AppointmentData(form)]

\* the submit button (disabled while loading) on a valid form
handleSubmit ==
  /\ isDialogOpen
  /\ ~loading
  /\ FormValid
  /\ editingAppointment = NoAppointment => db_nextId <= MaxAppts
  /\ loading' = TRUE
  /\ sub' = [appointment |-> editingAppointment, formData |-> formData,
             appointmentServices |-> appointmentServices,
             appointmentId |-> 0]
  /\ toast' = "none"
  /\ LET first == FirstCall(editingAppointment, formData)
     IN /\ pc' = first.op
        /\ request' = first
        /\ calls' = <<[op |-> first.op, res |-> "pending"]>>
  /\ UNCHANGED <<dbVars, pageVars, formVars, clients, services, dataLoads, itemLoads>>

\* the handler is done with what it closed over
Return == sub' = NoSubmit

\* an update whose error is not thrown
updateResolveUnchecked(ok) ==
  /\ pc = "update_appointment"
  /\ IF ok /\ AppointmentAccepted(request.arg.data)
       THEN /\ db_appointments' = DbUpdateAppointment(request.arg.id, request.arg.data)
            /\ Await(Settle(calls, "ok"), "delete_services", sub.appointment.id)
       ELSE /\ Await(Settle(calls, "error"), "delete_services", sub.appointment.id)
            /\ UNCHANGED db_appointments
  /\ sub' = [sub EXCEPT !.appointmentId = sub.appointment.id]
  /\ UNCHANGED <<db_appointment_services, db_transactions, db_services, db_clients,
                 db_nextId, db_nextTransactionId,
                 db_nextClientId, db_nextServiceId, appointments, pageLoading, editingAppointment, deletes,
                 formVars, clients, services, dataLoads, itemLoads>>

\* await ...update(appointmentData).eq("id", appointment.id) resumes
updateResolve(ok) ==
  /\ pc = "update_appointment"
  /\ IF ok /\ AppointmentAccepted(request.arg.data)
       THEN /\ db_appointments' = DbUpdateAppointment(request.arg.id, request.arg.data)
            /\ sub' = [sub EXCEPT !.appointmentId = sub.appointment.id]
            /\ Await(Settle(calls, "ok"), "delete_services", sub.appointment.id)
       ELSE /\ Catch(Settle(calls, "error"))
            /\ Return
            /\ UNCHANGED db_appointments
  /\ UNCHANGED <<db_appointment_services, db_transactions, db_services, db_clients,
                 db_nextId, db_nextTransactionId,
                 db_nextClientId, db_nextServiceId, appointments, pageLoading, editingAppointment, deletes,
                 formVars, clients, services, dataLoads, itemLoads>>

\* where the handler goes from an await whose result it has taken
Resume(continuation) ==
  /\ continuation
  /\ IF pc' = "idle" THEN Return ELSE UNCHANGED sub

\* a delete whose error is thrown like the others
deleteResolveThrowing(ok) ==
  /\ pc = "delete_services"
  /\ IF ok
       THEN /\ db_appointment_services' = DbDeleteServicesOf(request.arg)
            /\ Resume(AfterAppointment(Settle(calls, "ok"), sub.appointmentId))
       ELSE /\ Catch(Settle(calls, "error"))
            /\ Return
            /\ UNCHANGED db_appointment_services
  /\ UNCHANGED <<db_appointments, db_transactions, db_services, db_clients,
                 db_nextId, db_nextTransactionId, db_nextClientId, db_nextServiceId,
                 appointments, pageLoading, editingAppointment, deletes,
                 formVars, clients, services, dataLoads, itemLoads>>

\* await ...delete().eq("appointment_id", appointmentId) resumes; its result is
\* not read
deleteResolve(ok) ==
  /\ pc = "delete_services"
  /\ db_appointment_services' =
       IF ok THEN DbDeleteServicesOf(request.arg) ELSE db_appointment_services
  /\ Resume(AfterAppointment(Settle(calls, IF ok THEN "ok" ELSE "error"),
                             sub.appointmentId))
  /\ UNCHANGED <<db_appointments, db_transactions, db_services, db_clients,
                 db_nextId, db_nextTransactionId,
                 db_nextClientId, db_nextServiceId, appointments, pageLoading, editingAppointment, deletes,
                 formVars, clients, services, dataLoads, itemLoads>>

\* await ...insert([appointmentData]).select().single() resumes
insertResolve(ok) ==
  /\ pc = "insert_appointment"
  /\ IF ok /\ AppointmentAccepted(request.arg)
       THEN /\ db_appointments' = DbInsertAppointment(request.arg)
            /\ db_nextId' = db_nextId + 1
            /\ AfterAppointment(Settle(calls, "ok"), db_nextId)
            /\ IF pc' = "idle" THEN Return
                 ELSE sub' = [sub EXCEPT !.appointmentId = db_nextId]
       ELSE /\ Catch(Settle(calls, "error"))
            /\ Return
            /\ UNCHANGED <<db_appointments, db_nextId>>
  /\ UNCHANGED <<db_appointment_services, db_transactions, db_services, db_clients,
                 db_nextTransactionId, db_nextClientId, db_nextServiceId,
                 appointments, pageLoading, editingAppointment, deletes,
                 formVars, clients, services, dataLoads, itemLoads>>

\* a line-item insert sent row by row: the rows the store accepts stay
servicesResolveRowByRow(ok) ==
  /\ pc = "insert_services"
  /\ IF ok /\ ServiceRowsAccepted(request.arg)
       THEN /\ db_appointment_services' = db_appointment_services \o request.arg
            /\ Resume(AfterServices(Settle(calls, "ok")))
       ELSE /\ Catch(Settle(calls, "error"))
            /\ Return
            /\ db_appointment_services' =
                 IF ok THEN db_appointment_services
                              \o SelectSeq(request.arg, LAMBDA r : ServiceRowsAccepted(<<r>>))
                       ELSE db_appointment_services
  /\ UNCHANGED <<db_appointments, db_transactions, db_services, db_clients,
                 db_nextId, db_nextTransactionId,
                 db_nextClientId, db_nextServiceId, appointments, pageLoading, editingAppointment, deletes,
                 formVars, clients, services, dataLoads, itemLoads>>

\* await ...from("appointment_services").insert(servicesData) resumes
servicesResolve(ok) ==
  /\ pc = "insert_services"
  /\ IF ok /\ ServiceRowsAccepted(request.arg)
       THEN /\ db_appointment_services' = db_appointment_services \o request.arg
            /\ Resume(AfterServices(Settle(calls, "ok")))
       ELSE /\ Catch(Settle(calls, "error"))
            /\ Return
            /\ UNCHANGED db_appointment_services
  /\ UNCHANGED <<db_appointments, db_transactions, db_services, db_clients,
                 db_nextId, db_nextTransactionId,
                 db_nextClientId, db_nextServiceId, appointments, pageLoading, editingAppointment, deletes,
                 formVars, clients, services, dataLoads, itemLoads>>

\* a transaction insert whose error is thrown like the others
transactionResolveThrowing(ok) ==
  /\ pc = "insert_transaction"
  /\ IF ok /\ TransactionAccepted(request.arg)
       THEN /\ db_transactions' = DbInsertTransaction(request.arg)
            /\ db_nextTransactionId' = db_nextTransactionId + 1
            /\ Finish(Settle(calls, "ok"))
       ELSE /\ UNCHANGED <<db_transactions, db_nextTransactionId>>
            /\ Catch(Settle(calls, "error"))
  /\ Return
  /\ UNCHANGED <<db_appointments, db_appointment_services, db_services, db_clients,
                 db_nextId, db_nextClientId, db_nextServiceId, appointments, pageLoading, editingAppointment, deletes,
                 formVars, clients, services, dataLoads, itemLoads>>

\* await ...from("transactions").insert([transactionData]) resumes; an error is
\* logged and the handler goes on
transactionResolve(ok) ==
  /\ pc = "insert_transaction"
  /\ IF ok /\ TransactionAccepted(request.arg)
       THEN /\ db_transactions' = DbInsertTransaction(request.arg)
            /\ db_nextTransactionId' = db_nextTransactionId + 1
            /\ Finish(Settle(calls, "ok"))
       ELSE /\ UNCHANGED <<db_transactions, db_nextTransactionId>>
            /\ Finish(Settle(calls, "error"))
  /\ Return
  /\ UNCHANGED <<db_appointments, db_appointment_services, db_services, db_clients,
                 db_nextId, db_nextClientId, db_nextServiceId, appointments, pageLoading, editingAppointment, deletes,
                 formVars, clients, services, dataLoads, itemLoads>>

\* --------------------------------------------------------------- Dashboard
\* a nullable result: <<>> for null, <<v>> for the value v
Result(ok, value) == IF ok THEN <<value>> ELSE <<>>

ZeroStats ==
  [totalClients |-> 0, monthlyIncome |-> 0, monthlyExpense |-> 0,
   yearlyIncome |-> 0, upcomingAppointments |-> 0, monthlyBalance |-> 0]
NoData ==
  [clientCount |-> <<>>, monthlyTransactions |-> <<>>,
   yearlyTransactions |-> <<>>, appointmentCount |-> <<>>]

IsLeapYear(y) == (y % 4 = 0 /\ y % 100 # 0) \/ y % 400 = 0
DaysInMonth(y, m) ==
  IF m = 2 THEN (IF IsLeapYear(y) THEN 29 ELSE 28)
  ELSE IF m \in {4, 6, 9, 11} THEN 30 ELSE 31

\* a month that ends the day before its last day
MonthEndExclusive(t) == <<t[1], t[2], DaysInMonth(t[1], t[2]) - 1>>

\* format(startOfMonth(now), "yyyy-MM-dd") and the like
MonthStart(t) == <<t[1], t[2], 1>>
MonthEnd(t) == <<t[1], t[2], DaysInMonth(t[1], t[2])>>
YearStart(t) == <<t[1], 1, 1>>
YearEnd(t) == <<t[1], 12, 31>>

\* the store's order on a date column
DateLeq(a, b) ==
  \/ a[1] < b[1]
  \/ a[1] = b[1] /\ a[2] < b[2]
  \/ a[1] = b[1] /\ a[2] = b[2] /\ a[3] <= b[3]

\* the store's order on a timestamptz column: ts >= now.toISOString()
TimestampGeq(ts, t) ==
  LET day == <<t[1], t[2], t[3]>>
  IN IF ts.date = day THEN ts.hour >= t[4] ELSE DateLeq(day, ts.date)

\* clients: select("*", {count: "exact", head: true})
DbCountClients == Cardinality(DOMAIN db_clients)

\* transactions: .gte("transaction_date", from).lte("transaction_date", to)
DbSelectTransactions(from, to) ==
  SelectSeq(db_transactions,
            LAMBDA r : DateLeq(from, r.transaction_date) /\ DateLeq(r.transaction_date, to))

\* transactions: .eq("type", "income") within the same range filter
DbSelectIncome(from, to) ==
  SelectSeq(DbSelectTransactions(from, to), LAMBDA r : r.type = "income")

\* appointments: count of .gte("start_date", now).eq("status", "scheduled")
DbCountUpcoming(t) ==
  Cardinality({i \in DOMAIN db_appointments :
                 /\ db_appointments[i].status = "scheduled"
                 /\ TimestampGeq(db_appointments[i].start_date, t)})

\* reduce((sum, t) => sum + Number(t.amount), 0)
SumAmounts(rows) == SumSeq([i \in 1..Len(rows) |-> rows[i].amount])

\* data?.filter(t => t.type === type).reduce(...) || 0
SumOfType(data, type) ==
  IF data = <<>> THEN 0
  ELSE SumAmounts(SelectSeq(data[1], LAMBDA r : r.type = type))

\* count || 0
OrZero(count) == IF count = <<>> THEN 0 ELSE count[1]

\* the record fetchDashboardStats passes to setStats
Stats(data) ==
  LET monthlyIncome == SumOfType(data.monthlyTransactions, "income")
      monthlyExpense == SumOfType(data.monthlyTransactions, "expense")
      yearlyIncome == IF data.yearlyTransactions = <<>> THEN 0
                      ELSE SumAmounts(data.yearlyTransactions[1])
  IN [totalClients |-> OrZero(data.clientCount),
      monthlyIncome |-> monthlyIncome,
      monthlyExpense |-> monthlyExpense,
      yearlyIncome |-> yearlyIncome,
      upcomingAppointments |-> OrZero(data.appointmentCount),
      monthlyBalance |-> monthlyIncome - monthlyExpense]

\* fetchDashboardStats sends a query and suspends on it
DashAwait(log, op) ==
  /\ dashPc' = op
  /\ dashCalls' = Append(log, [op |-> op, res |-> "pending"])

Outcome(ok) == IF ok THEN "ok" ELSE "error"

\* a clients count that does not hold the next query back
clientsCountResolveEager(ok) ==
  /\ dashPc = "clients_count"
  /\ dashData' = [dashData EXCEPT !.clientCount = Result(ok, DbCountClients)]
  /\ dashPc' = "monthly_transactions"
  /\ dashCalls' = Settle(dashCalls, Outcome(ok))
                    \o <<[op |-> "monthly_transactions", res |-> "pending"],
                         [op |-> "yearly_income", res |-> "pending"]>>
  /\ UNCHANGED <<now, stats, dashLoading>>

\* await ...from("clients").select(count) resumes; the next query is sent
clientsCountResolve(ok) ==
  /\ dashPc = "clients_count"
  /\ dashData' = [dashData EXCEPT !.clientCount = Result(ok, DbCountClients)]
  /\ DashAwait(Settle(dashCalls, Outcome(ok)), "monthly_transactions")
  /\ UNCHANGED <<now, stats, dashLoading>>

\* await ...from("transactions") of the month resumes
monthlyResolve(ok) ==
  /\ dashPc = "monthly_transactions"
  /\ dashData' = [dashData EXCEPT !.monthlyTransactions =
                    Result(ok, DbSelectTransactions(MonthStart(now), MonthEnd(now)))]
  /\ DashAwait(Settle(dashCalls, Outcome(ok)), "yearly_income")
  /\ UNCHANGED <<now, stats, dashLoading>>

\* await ...from("transactions") of the year's income resumes
yearlyResolve(ok) ==
  /\ dashPc = "yearly_income"
  /\ dashData' = [dashData EXCEPT !.yearlyTransactions =
                    Result(ok, DbSelectIncome(YearStart(now), YearEnd(now)))]
  /\ DashAwait(Settle(dashCalls, Outcome(ok)), "upcoming_appointments")
  /\ UNCHANGED <<now, stats, dashLoading>>

\* await ...from("appointments").select(count) resumes: the statistics are
\* computed, setStats; finally setLoading(false)
upcomingResolve(ok) ==
  /\ dashPc = "upcoming_appointments"
  /\ LET data == [dashData EXCEPT !.appointmentCount = Result(ok, DbCountUpcoming(now))]
     IN /\ dashData' = data
        /\ stats' = Stats(data)
  /\ dashPc' = "idle"
  /\ dashCalls' = Settle(dashCalls, Outcome(ok))
  /\ dashLoading' = FALSE
  /\ UNCHANGED now

\* Dashboard as constructed; mounted, its useEffect has called
\* fetchDashboardStats(), which is suspended on its first query
DashboardUnmounted ==
  /\ now = <<>>
  /\ stats = ZeroStats
  /\ dashLoading = TRUE
  /\ dashPc = "idle"
  /\ dashCalls = <<>>
  /\ dashData = NoData

DashboardMounted(t) ==
  /\ now = t
  /\ stats = ZeroStats
  /\ dashLoading = TRUE
  /\ dashPc = "clients_count"
  /\ dashCalls = <<[op |-> "clients_count", res |-> "pending"]>>
  /\ dashData = NoData

\* ------------------------------------------------- the CRUD pages' state
NoForm == [none |-> TRUE]

\* no CRUD page is mounted: the router shows another path
NoCrudPage(path) ==
  /\ route = path
  /\ records = <<>>
  /\ categories = <<>>
  /\ searchTerm = <<>>
  /\ rowsLoading = TRUE
  /\ rowDialogOpen = FALSE
  /\ editingRow = <<>>
  /\ rowForm = NoForm
  /\ dialogLoading = FALSE
  /\ rowFetches = 0
  /\ rowCalls = <<>>
  /\ rowToast = "none"

\* a CRUD page as constructed and mounted: its useEffect's fetch is in flight
CrudPage(path, form) ==
  /\ route = path
  /\ records = <<>>
  /\ categories = <<>>
  /\ searchTerm = <<>>
  /\ rowsLoading = TRUE
  /\ rowDialogOpen = FALSE
  /\ editingRow = <<>>
  /\ rowForm = form
  /\ dialogLoading = FALSE
  /\ rowFetches = 1
  /\ rowCalls = <<>>
  /\ rowToast = "none"

\* the fetch of the list resumes: setX(data || []) or the error toast; finally
\* setLoading(false)
ListFetched(ok, data) ==
  /\ rowFetches > 0
  /\ rowFetches' = rowFetches - 1
  /\ records' = (IF ok THEN data ELSE records)
  /\ rowToast' = (IF ok THEN rowToast ELSE "error")
  /\ rowsLoading' = FALSE
  /\ UNCHANGED <<dbVars, route, searchTerm, rowDialogOpen, editingRow, rowForm, dialogLoading, rowCalls>>

\* a handler sends a store write and suspends on it
Send(op, id, data) ==
  /\ rowCalls' = Append(rowCalls, [op |-> op, id |-> id, data |-> data])
  /\ UNCHANGED <<dbVars, route, searchTerm, categories, records, rowsLoading, rowDialogOpen, editingRow, rowForm,
                 rowFetches, rowToast>>

\* a catch block that also closes the dialog and resets the form's target
WriteFailedClosing(k) ==
  /\ rowCalls' = RemoveAt(rowCalls, k)
  /\ rowToast' = "error"
  /\ rowDialogOpen' = FALSE
  /\ editingRow' = <<>>
  /\ UNCHANGED <<dbVars, route, searchTerm, categories, records, rowsLoading, rowForm, rowFetches>>

\* a write's catch block: console.error and the error toast
WriteFailed(k) ==
  /\ rowCalls' = RemoveAt(rowCalls, k)
  /\ rowToast' = "error"
  /\ UNCHANGED <<dbVars, route, searchTerm, categories, records, rowsLoading, rowDialogOpen, editingRow, rowForm,
                 rowFetches>>

\* a handleDelete that removes the row from the in-memory list instead of fetching
DeletedPatching(k) ==
  /\ rowCalls' = RemoveAt(rowCalls, k)
  /\ rowToast' = "success"
  /\ records' = SelectSeq(records, LAMBDA r : r.id # rowCalls[k].id)
  /\ UNCHANGED <<route, searchTerm, categories, rowsLoading, rowDialogOpen, editingRow, rowForm, dialogLoading,
                 rowFetches>>

\* handleDelete after a successful delete: the success toast and the refetch
Deleted(k) ==
  /\ rowCalls' = RemoveAt(rowCalls, k)
  /\ rowToast' = "success"
  /\ rowFetches' = rowFetches + 1
  /\ UNCHANGED <<route, searchTerm, categories, records, rowsLoading, rowDialogOpen, editingRow, rowForm, dialogLoading>>

\* a page's own handleSubmit after a successful write: the success toast, the
\* dialog closed, the editing target and the form reset, the refetch
Saved(k, form) ==
  /\ rowCalls' = RemoveAt(rowCalls, k)
  /\ rowToast' = "success"
  /\ rowDialogOpen' = FALSE
  /\ editingRow' = <<>>
  /\ rowForm' = form
  /\ rowFetches' = rowFetches + 1
  /\ UNCHANGED <<route, searchTerm, categories, records, rowsLoading, dialogLoading>>

\* the dialog's own close (Esc, overlay, X): onOpenChange(false)
CloseRowDialog ==
  /\ rowDialogOpen
  /\ rowDialogOpen' = FALSE
  /\ UNCHANGED <<dbVars, route, searchTerm, categories, records, rowsLoading, editingRow, rowForm, dialogLoading,
                 rowFetches, rowCalls, rowToast>>

\* the empty-state button of a page: onClick={() => setIsDialogOpen(true)}
EmptyStateOpen ==
  /\ ~rowDialogOpen
  /\ ~rowsLoading
  /\ records = <<>>
  /\ rowDialogOpen' = TRUE

\* a form field's onChange / onValueChange
SetField(field, value) ==
  /\ rowDialogOpen
  /\ rowForm' = [rowForm EXCEPT ![field] = value]
  /\ UNCHANGED <<dbVars, route, searchTerm, categories, records, rowsLoading, rowDialogOpen, editingRow, dialogLoading,
                 rowFetches, rowCalls, rowToast>>

\* ---------------------------------------------------------------- CashFlow
\* format(new Date(), "yyyy-MM-dd") while the page is in use
Today == <<2025, 1, 10>>

CashEmptyForm ==
  [type |-> "income", amount |-> <<>>, category_id |-> "", client_id |-> "",
   transaction_date |-> Today]

\* records in the order of .order("transaction_date", {ascending: false}); records of
\* one date in the order of their ids
RECURSIVE NewestFirst(_)
NewestFirst(list) ==
  IF list = <<>> THEN <<>>
  ELSE LET first == CHOOSE i \in 1..Len(list) :
                      \A j \in 1..Len(list) :
                        \/ ~DateLeq(list[i].transaction_date, list[j].transaction_date)
                        \/ /\ list[i].transaction_date = list[j].transaction_date
                           /\ list[i].id <= list[j].id
       IN <<list[first]>> \o NewestFirst(RemoveAt(list, first))

\* categories: the rows the migration seeds (one of its four expense rows),
\* SELECT * ... ORDER BY name; no page inserts, updates or deletes a category
DbSelectCategories ==
  <<[id |-> "k1", name |-> "Equipamentos", type |-> "expense"],
    [id |-> "k2", name |-> "Sessoes de Foto", type |-> "income"],
    [id |-> "k3", name |-> "Storytelling", type |-> "income"]>>

\* fetchData resumes from Promise.all of transactions, categories and clients
CashFlow_fetchDataResolve(ok) ==
  /\ route = "/caixa"
  /\ ListFetched(ok, NewestFirst(db_transactions))
  /\ categories' = (IF ok THEN DbSelectCategories ELSE categories)

\* the "Nova Transação" trigger: the editing target and the form are reset and the
\* dialog opens
CashFlow_newTransaction ==
  /\ route = "/caixa"
  /\ ~rowDialogOpen
  /\ editingRow' = <<>>
  /\ rowForm' = CashEmptyForm
  /\ rowDialogOpen' = TRUE
  /\ UNCHANGED <<dbVars, route, searchTerm, categories, records, rowsLoading, dialogLoading, rowFetches, rowCalls,
                 rowToast>>

\* the "Registrar Transação" button of the empty list
CashFlow_emptyStateAdd ==
  /\ route = "/caixa"
  /\ EmptyStateOpen
  /\ UNCHANGED <<dbVars, route, searchTerm, categories, records, rowsLoading, editingRow, rowForm, dialogLoading,
                 rowFetches, rowCalls, rowToast>>

\* handleEdit(transaction)
CashFlow_handleEdit(k) ==
  /\ route = "/caixa"
  /\ ~rowDialogOpen
  /\ k \in 1..Len(records)
  /\ editingRow' = <<records[k]>>
  /\ rowForm' = [type |-> records[k].type, amount |-> <<records[k].amount>>,
                 category_id |-> OrEmpty(records[k].category_id),
                 client_id |-> OrEmpty(records[k].client_id),
                 transaction_date |-> records[k].transaction_date]
  /\ rowDialogOpen' = TRUE
  /\ UNCHANGED <<dbVars, route, searchTerm, categories, records, rowsLoading, dialogLoading, rowFetches, rowCalls,
                 rowToast>>

\* getAvailableCategories(): the categories of the form's type
getAvailableCategories ==
  SelectSeq(categories, LAMBDA cat : cat.type = rowForm.type)

\* the category select: one of the items it lists
CashFlow_setCategory(value) ==
  /\ route = "/caixa"
  /\ \E i \in 1..Len(getAvailableCategories) : getAvailableCategories[i].id = value
  /\ SetField("category_id", value)

\* a type select that leaves the category as it is
CashFlow_setTypeKeepingCategory(value) ==
  /\ route = "/caixa"
  /\ rowDialogOpen
  /\ rowForm' = [rowForm EXCEPT !.type = value]
  /\ UNCHANGED <<dbVars, route, searchTerm, categories, records, rowsLoading, rowDialogOpen, editingRow, dialogLoading,
                 rowFetches, rowCalls, rowToast>>

\* the type select: the category is cleared with it
CashFlow_setType(value) ==
  /\ route = "/caixa"
  /\ rowDialogOpen
  /\ rowForm' = [rowForm EXCEPT !.type = value, !.category_id = ""]
  /\ UNCHANGED <<dbVars, route, searchTerm, categories, records, rowsLoading, rowDialogOpen, editingRow, dialogLoading,
                 rowFetches, rowCalls, rowToast>>

\* the amount input (type="number": its text is a number or empty)
CashFlow_setAmount(raw) == route = "/caixa" /\ SetField("amount", raw)

\* a validation without the min attribute
CashFlow_FormValidNoMin == rowForm.amount # <<>> /\ rowForm.transaction_date # <<>>

\* the browser's constraint validation: amount required, min="0"; date required
CashFlow_FormValid ==
  /\ rowForm.amount # <<>>
  /\ rowForm.amount[1] >= 0
  /\ rowForm.transaction_date # <<>>

\* transactionData = {...formData, amount: parseFloat(formData.amount), ...}
CashFlow_TransactionData(form) ==
  [type |-> form.type, amount |-> form.amount[1],
   category_id |-> OrNull(form.category_id), client_id |-> OrNull(form.client_id),
   transaction_date |-> form.transaction_date]

\* handleSubmit up to its await
CashFlow_handleSubmit ==
  /\ route = "/caixa"
  /\ rowDialogOpen
  /\ CashFlow_FormValid
  /\ IF editingRow # <<>>
       THEN Send("update_transaction", editingRow[1].id, CashFlow_TransactionData(rowForm))
       ELSE Send("insert_transaction", 0, CashFlow_TransactionData(rowForm))
  /\ UNCHANGED dialogLoading

\* transactions: UPDATE ... WHERE id = $id
DbUpdateTransaction(id, data) ==
  [i \in 1..Len(db_transactions) |->
     IF db_transactions[i].id = id
       THEN [id |-> id, type |-> data.type, amount |-> data.amount,
             category_id |-> data.category_id, client_id |-> data.client_id,
             transaction_date |-> data.transaction_date]
       ELSE db_transactions[i]]

\* transactions: DELETE ... WHERE id = $id
DbDeleteTransaction(id) == SelectSeq(db_transactions, LAMBDA r : r.id # id)

\* handleSubmit resumes from its update or insert
CashFlow_submitResolve(k, ok) ==
  /\ route = "/caixa"
  /\ k \in 1..Len(rowCalls)
  /\ rowCalls[k].op \in {"update_transaction", "insert_transaction"}
  /\ IF ok /\ TransactionAccepted(rowCalls[k].data)
       THEN /\ IF rowCalls[k].op = "update_transaction"
                 THEN /\ db_transactions' = DbUpdateTransaction(rowCalls[k].id, rowCalls[k].data)
                      /\ UNCHANGED db_nextTransactionId
                 ELSE /\ db_transactions' = DbInsertTransaction(rowCalls[k].data)
                      /\ db_nextTransactionId' = db_nextTransactionId + 1
            /\ Saved(k, CashEmptyForm)
            /\ UNCHANGED <<db_appointments, db_appointment_services, db_services, db_clients,
                           db_nextId, db_nextClientId, db_nextServiceId>>
       ELSE /\ WriteFailed(k)
            /\ UNCHANGED dialogLoading

\* handleDelete(id), confirmed, up to its await
CashFlow_handleDelete(k) ==
  /\ route = "/caixa"
  /\ ~rowDialogOpen
  /\ k \in 1..Len(records)
  /\ Send("delete_transaction", records[k].id, <<>>)
  /\ UNCHANGED dialogLoading

\* handleDelete resumes
CashFlow_deleteResolve(k, ok) ==
  /\ route = "/caixa"
  /\ k \in 1..Len(rowCalls)
  /\ rowCalls[k].op = "delete_transaction"
  /\ IF ok
       THEN /\ db_transactions' = DbDeleteTransaction(rowCalls[k].id)
            /\ Deleted(k)
            /\ UNCHANGED <<db_appointments, db_appointment_services, db_services, db_clients,
                           db_nextId, db_nextTransactionId, db_nextClientId, db_nextServiceId>>
       ELSE /\ WriteFailed(k)
            /\ UNCHANGED dialogLoading

\* totalIncome, totalExpense and balance of the render
totalIncome(transactions) ==
  SumAmounts(SelectSeq(transactions, LAMBDA t : t.type = "income"))
totalExpense(transactions) ==
  SumAmounts(SelectSeq(transactions, LAMBDA t : t.type = "expense"))
balanceOfAllAmounts(transactions) == SumAmounts(transactions)
balance(transactions) == totalIncome(transactions) - totalExpense(transactions)

\* ----------------------------------------------------------------- Clients
ClientEmptyForm == [name |-> ""]

\* the ids of a table's rows in the order of
\* .order("created_at", {ascending: false})
NewestCreatedFirst(pool, table) ==
  LET ids == SelectSeq(pool, LAMBDA id : id \in DOMAIN table)
  IN [i \in 1..Len(ids) |-> ids[Len(ids) + 1 - i]]

\* from("clients").select("*")
DbSelectClients ==
  LET ids == NewestCreatedFirst(ClientIdPool, db_clients)
  IN [i \in 1..Len(ids) |-> [id |-> ids[i], name |-> db_clients[ids[i]]]]

\* fetchClients resumes
Clients_fetchClientsResolve(ok) ==
  /\ route = "/clientes"
  /\ ListFetched(ok, DbSelectClients)
  /\ UNCHANGED categories

\* a string as the sequence of its characters
Chars(str) ==
  CASE str = "Ana Silva" -> <<"A", "n", "a", " ", "S", "i", "l", "v", "a">>
    [] str = "ANA" -> <<"A", "N", "A">>
    [] str = "Bia" -> <<"B", "i", "a">>
    [] str = "Ana" -> <<"A", "n", "a">>
    [] OTHER -> <<>>

\* String.prototype.toLowerCase(), character by character
LowerOf(char) ==
  CASE char = "A" -> "a" [] char = "B" -> "b" [] char = "I" -> "i"
    [] char = "N" -> "n" [] char = "S" -> "s" [] OTHER -> char
toLowerCase(str) == [i \in 1..Len(str) |-> LowerOf(str[i])]

\* String.prototype.indexOf(search, pos), 1-based, 0 when there is none
RECURSIVE indexOf(_, _, _)
indexOf(str, search, pos) ==
  IF pos + Len(search) - 1 > Len(str) THEN 0
  ELSE IF SubSeq(str, pos, pos + Len(search) - 1) = search THEN pos
  ELSE indexOf(str, search, pos + 1)

\* String.prototype.includes(search)
includes(str, search) == indexOf(str, search, 1) # 0

\* client.email?.toLowerCase().includes(...): undefined for a row without it
OptionalIncludes(client, field, search, lower) ==
  /\ field \in DOMAIN client
  /\ client[field] # NULL
  /\ includes(IF lower THEN toLowerCase(Chars(client[field])) ELSE Chars(client[field]),
              search)

\* a filter that compares the name as it is written
filteredClientsNameAsWritten ==
  SelectSeq(records, LAMBDA client :
    \/ includes(Chars(client.name), toLowerCase(searchTerm))
    \/ OptionalIncludes(client, "email", toLowerCase(searchTerm), TRUE)
    \/ OptionalIncludes(client, "phone", searchTerm, FALSE))

\* filteredClients
filteredClients ==
  SelectSeq(records, LAMBDA client :
    \/ includes(toLowerCase(Chars(client.name)), toLowerCase(searchTerm))
    \/ OptionalIncludes(client, "email", toLowerCase(searchTerm), TRUE)
    \/ OptionalIncludes(client, "phone", searchTerm, FALSE))

\* the search input: onChange={(e) => setSearchTerm(e.target.value)}
Clients_setSearchTerm(value) ==
  /\ route = "/clientes"
  /\ searchTerm' = value
  /\ UNCHANGED <<dbVars, route, categories, records, rowsLoading, rowDialogOpen,
                 editingRow, rowForm, dialogLoading, rowFetches, rowCalls, rowToast>>

\* the "Novo Cliente" trigger
Clients_newClient ==
  /\ route = "/clientes"
  /\ ~rowDialogOpen
  /\ editingRow' = <<>>
  /\ rowForm' = ClientEmptyForm
  /\ rowDialogOpen' = TRUE
  /\ UNCHANGED <<dbVars, route, searchTerm, categories, records, rowsLoading, dialogLoading, rowFetches, rowCalls,
                 rowToast>>

\* the "Adicionar Cliente" button of the empty list
Clients_emptyStateAdd ==
  /\ route = "/clientes"
  /\ EmptyStateOpen
  /\ UNCHANGED <<dbVars, route, searchTerm, categories, records, rowsLoading, editingRow, rowForm, dialogLoading,
                 rowFetches, rowCalls, rowToast>>

\* handleEdit(client)
Clients_handleEdit(k) ==
  /\ route = "/clientes"
  /\ ~rowDialogOpen
  /\ k \in 1..Len(records)
  /\ editingRow' = <<records[k]>>
  /\ rowForm' = [name |-> records[k].name]
  /\ rowDialogOpen' = TRUE
  /\ UNCHANGED <<dbVars, route, searchTerm, categories, records, rowsLoading, dialogLoading, rowFetches, rowCalls,
                 rowToast>>

\* the name input
Clients_setName(value) == route = "/clientes" /\ SetField("name", value)

\* handleSubmit up to its await; the name input is required
Clients_handleSubmit ==
  /\ route = "/clientes"
  /\ rowDialogOpen
  /\ rowForm.name # ""
  /\ IF editingRow # <<>>
       THEN Send("update_client", editingRow[1].id, rowForm)
       ELSE Send("insert_client", "", rowForm)
  /\ UNCHANGED dialogLoading

\* clients: UPDATE ... WHERE id = $id
DbUpdateClient(id, data) ==
  IF id \in DOMAIN db_clients THEN [db_clients EXCEPT ![id] = data.name] ELSE db_clients

\* clients: INSERT, id from gen_random_uuid()
DbInsertClient(data) ==
  [c \in DOMAIN db_clients \cup {ClientIdPool[db_nextClientId]} |->
     IF c \in DOMAIN db_clients THEN db_clients[c] ELSE data.name]

\* appointments.client_id and transactions.client_id REFERENCES clients(id),
\* without ON DELETE: a referenced client cannot be deleted
ClientDeleteAccepted(id) ==
  /\ \A a \in DOMAIN db_appointments : db_appointments[a].client_id # id
  /\ \A i \in 1..Len(db_transactions) : db_transactions[i].client_id # id

\* handleSubmit resumes from its update or insert
Clients_submitResolve(k, ok) ==
  /\ route = "/clientes"
  /\ k \in 1..Len(rowCalls)
  /\ rowCalls[k].op \in {"update_client", "insert_client"}
  /\ IF ok
       THEN /\ IF rowCalls[k].op = "update_client"
                 THEN /\ db_clients' = DbUpdateClient(rowCalls[k].id, rowCalls[k].data)
                      /\ UNCHANGED db_nextClientId
                 ELSE /\ db_clients' = DbInsertClient(rowCalls[k].data)
                      /\ db_nextClientId' = db_nextClientId + 1
            /\ Saved(k, ClientEmptyForm)
            /\ UNCHANGED <<db_appointments, db_appointment_services, db_transactions,
                           db_services, db_nextId, db_nextTransactionId, db_nextServiceId>>
       ELSE /\ WriteFailed(k)
            /\ UNCHANGED dialogLoading

\* handleDelete(id), confirmed, up to its await
Clients_handleDelete(k) ==
  /\ route = "/clientes"
  /\ ~rowDialogOpen
  /\ k \in 1..Len(records)
  /\ Send("delete_client", records[k].id, <<>>)
  /\ UNCHANGED dialogLoading

\* handleDelete resumes
Clients_deleteResolve(k, ok) ==
  /\ route = "/clientes"
  /\ k \in 1..Len(rowCalls)
  /\ rowCalls[k].op = "delete_client"
  /\ IF ok /\ ClientDeleteAccepted(rowCalls[k].id)
       THEN /\ db_clients' = [c \in DOMAIN db_clients \ {rowCalls[k].id} |-> db_clients[c]]
            /\ Deleted(k)
            /\ UNCHANGED <<db_appointments, db_appointment_services, db_transactions,
                           db_services, db_nextId, db_nextTransactionId, db_nextClientId,
                           db_nextServiceId>>
       ELSE /\ WriteFailed(k)
            /\ UNCHANGED dialogLoading

\* ------------------------------------------------ Services and ServiceDialog
ServiceEmptyForm == [base_price |-> <<>>]

\* ServiceDialog's useEffect on [open, service], run with open = true
ServiceDialog_OpenEffect(service) ==
  rowForm' = (IF service # <<>> THEN [base_price |-> <<service[1].base_price>>]
              ELSE ServiceEmptyForm)

\* from("services").select("*")
DbSelectServices ==
  LET ids == NewestCreatedFirst(ServiceIdPool, db_services)
  IN [i \in 1..Len(ids) |-> [id |-> ids[i], base_price |-> db_services[ids[i]]]]

\* fetchServices resumes
Services_fetchServicesResolve(ok) ==
  /\ route = "/servicos"
  /\ ListFetched(ok, DbSelectServices)
  /\ UNCHANGED categories

\* the "Novo Serviço" button: setEditingService(null); setIsDialogOpen(true)
Services_newService ==
  /\ route = "/servicos"
  /\ ~rowDialogOpen
  /\ editingRow' = <<>>
  /\ rowDialogOpen' = TRUE
  /\ ServiceDialog_OpenEffect(<<>>)
  /\ UNCHANGED <<dbVars, route, searchTerm, categories, records, rowsLoading, dialogLoading, rowFetches, rowCalls,
                 rowToast>>

\* the "Adicionar Serviço" button of the empty list: the editing target is kept
Services_emptyStateAdd ==
  /\ route = "/servicos"
  /\ EmptyStateOpen
  /\ ServiceDialog_OpenEffect(editingRow)
  /\ UNCHANGED <<dbVars, route, searchTerm, categories, records, rowsLoading, editingRow, dialogLoading,
                 rowFetches, rowCalls, rowToast>>

\* handleEdit(service)
Services_handleEdit(k) ==
  /\ route = "/servicos"
  /\ ~rowDialogOpen
  /\ k \in 1..Len(records)
  /\ editingRow' = <<records[k]>>
  /\ rowDialogOpen' = TRUE
  /\ ServiceDialog_OpenEffect(<<records[k]>>)
  /\ UNCHANGED <<dbVars, route, searchTerm, categories, records, rowsLoading, dialogLoading, rowFetches, rowCalls,
                 rowToast>>

\* the base_price input
ServiceDialog_setBasePrice(raw) == route = "/servicos" /\ SetField("base_price", raw)

\* the submit button (disabled while loading); base_price required, min="0";
\* handleSubmit up to its await
ServiceDialog_handleSubmit ==
  /\ route = "/servicos"
  /\ rowDialogOpen
  /\ ~dialogLoading
  /\ rowForm.base_price # <<>>
  /\ rowForm.base_price[1] >= 0
  /\ dialogLoading' = TRUE
  /\ LET serviceData == [base_price |-> rowForm.base_price[1]]
     IN IF editingRow # <<>>
          THEN Send("update_service", editingRow[1].id, serviceData)
          ELSE Send("insert_service", "", serviceData)

\* services: UPDATE ... WHERE id = $id
DbUpdateService(id, data) ==
  IF id \in DOMAIN db_services
    THEN [db_services EXCEPT ![id] = data.base_price] ELSE db_services

\* services: INSERT, id from gen_random_uuid()
DbInsertService(data) ==
  [v \in DOMAIN db_services \cup {ServiceIdPool[db_nextServiceId]} |->
     IF v \in DOMAIN db_services THEN db_services[v] ELSE data.base_price]

\* appointment_services.service_id REFERENCES services(id), without ON DELETE
ServiceDeleteAccepted(id) ==
  \A i \in 1..Len(db_appointment_services) : db_appointment_services[i].service_id # id

\* handleSubmit resumes: the success toast, onOpenChange(false), onSave(); or the
\* error toast; finally setLoading(false)
ServiceDialog_submitResolve(k, ok) ==
  /\ route = "/servicos"
  /\ k \in 1..Len(rowCalls)
  /\ rowCalls[k].op \in {"update_service", "insert_service"}
  /\ dialogLoading' = FALSE
  /\ IF ok
       THEN /\ IF rowCalls[k].op = "update_service"
                 THEN /\ db_services' = DbUpdateService(rowCalls[k].id, rowCalls[k].data)
                      /\ UNCHANGED db_nextServiceId
                 ELSE /\ db_services' = DbInsertService(rowCalls[k].data)
                      /\ db_nextServiceId' = db_nextServiceId + 1
            /\ rowCalls' = RemoveAt(rowCalls, k)
            /\ rowToast' = "success"
            /\ rowDialogOpen' = FALSE
            /\ rowFetches' = rowFetches + 1
            /\ UNCHANGED <<db_appointments, db_appointment_services, db_transactions,
                           db_clients, db_nextId, db_nextTransactionId, db_nextClientId,
                           route, searchTerm, categories, records, rowsLoading, editingRow, rowForm>>
       ELSE WriteFailed(k)

\* handleDelete(id), confirmed, up to its await
Services_handleDelete(k) ==
  /\ route = "/servicos"
  /\ ~rowDialogOpen
  /\ k \in 1..Len(records)
  /\ Send("delete_service", records[k].id, <<>>)
  /\ UNCHANGED dialogLoading

\* handleDelete resumes
Services_deleteResolve(k, ok) ==
  /\ route = "/servicos"
  /\ k \in 1..Len(rowCalls)
  /\ rowCalls[k].op = "delete_service"
  /\ IF ok /\ ServiceDeleteAccepted(rowCalls[k].id)
       THEN /\ db_services' = [v \in DOMAIN db_services \ {rowCalls[k].id} |-> db_services[v]]
            /\ Deleted(k)
            /\ UNCHANGED <<db_appointments, db_appointment_services, db_transactions,
                           db_clients, db_nextId, db_nextTransactionId, db_nextClientId,
                           db_nextServiceId>>
       ELSE /\ WriteFailed(k)
            /\ UNCHANGED dialogLoading

\* ---------------------------------------------- AuthProvider and LoginForm
\* the fixed credential pair of login
ValidEmail == "valid@mail"
ValidPassword == "Secret1"

\* AuthWrapper shows its children: the session of every page's specification
LoggedIn ==
  /\ isAuthenticated = TRUE
  /\ storage = "authenticated"
  /\ authStarted = TRUE
  /\ email = ""
  /\ password = ""
  /\ authToast = "none"

\* AuthProvider's useEffect: localStorage.getItem("framebox-auth")
AuthProvider_startup ==
  /\ ~authStarted
  /\ authStarted' = TRUE
  /\ isAuthenticated' = (IF storage = "authenticated" THEN TRUE ELSE isAuthenticated)
  /\ UNCHANGED <<storage, email, password, authToast>>

\* LoginForm's inputs; AuthWrapper shows the form while not authenticated
LoginForm_setEmail(value) ==
  /\ authStarted /\ ~isAuthenticated
  /\ email' = value
  /\ UNCHANGED <<isAuthenticated, storage, authStarted, password, authToast>>

LoginForm_setPassword(value) ==
  /\ authStarted /\ ~isAuthenticated
  /\ password' = value
  /\ UNCHANGED <<isAuthenticated, storage, authStarted, email, authToast>>

\* a login that does not write the key
loginInMemoryOnly(e, p) ==
  IF e = ValidEmail /\ p = ValidPassword
    THEN /\ isAuthenticated' = TRUE
         /\ authToast' = "success"
         /\ UNCHANGED storage
    ELSE /\ authToast' = "error"
         /\ UNCHANGED <<isAuthenticated, storage>>

\* login(email, password)
login(e, p) ==
  IF e = ValidEmail /\ p = ValidPassword
    THEN /\ isAuthenticated' = TRUE
         /\ storage' = "authenticated"
         /\ authToast' = "success"
    ELSE /\ authToast' = "error"
         /\ UNCHANGED <<isAuthenticated, storage>>

\* LoginForm.handleSubmit (both inputs required); the form unmounts, and its
\* state goes, when the login succeeds
LoginForm_handleSubmit ==
  /\ authStarted /\ ~isAuthenticated
  /\ email # "" /\ password # ""
  /\ login(email, password)
  /\ IF isAuthenticated' THEN email' = "" /\ password' = ""
                         ELSE UNCHANGED <<email, password>>
  /\ UNCHANGED authStarted

\* logout, from the sidebar's button
logout ==
  /\ authStarted /\ isAuthenticated
  /\ isAuthenticated' = FALSE
  /\ storage' = NULL
  /\ authToast' = "logout"
  /\ UNCHANGED <<authStarted, email, password>>

\* ------------------------------------------------------- specification
\* stores the page can be mounted over: the migrated store with one client, and
\* the same after two appointments were saved
EmptyStore ==
  [appointments |-> <<>>, appointment_services |-> <<>>, transactions |-> <<>>]
UsedStore ==
  [appointments |->
     <<[status |-> "scheduled", client_id |-> "c1",
        start_date |-> ParseTimestamp(<<2025, 1, 10, 10>>)],
       [status |-> "completed", client_id |-> NULL,
        start_date |-> ParseTimestamp(<<2025, 1, 31, 23>>)]>>,
   appointment_services |->
     <<[appointment_id |-> 1, service_id |-> "s1", price |-> 3, quantity |-> 1],
       [appointment_id |-> 1, service_id |-> "s2", price |-> 4, quantity |-> 2],
       [appointment_id |-> 2, service_id |-> "s2", price |-> 5, quantity |-> 1]>>,
   transactions |-> <<>>]
Stores == {EmptyStore, UsedStore}

\* the greatest id the store has generated for these rows
LastId(rows) ==
  IF rows = <<>> THEN 0
  ELSE CHOOSE n \in {rows[i].id : i \in 1..Len(rows)} :
         \A i \in 1..Len(rows) : rows[i].id <= n

StoreIs(store) ==
  /\ db_appointments = store.appointments
  /\ db_appointment_services = store.appointment_services
  /\ db_transactions = store.transactions
  /\ db_services = SeedServices
  /\ db_clients = [c \in ClientIds |-> "Ana"]
  /\ db_nextId = Len(store.appointments) + 1
  /\ db_nextTransactionId = LastId(store.transactions) + 1
  /\ db_nextClientId = Cardinality(ClientIds) + 1
  /\ db_nextServiceId = Cardinality(ServiceIds) + 1

\* CalendarPage and its dialog as constructed, with the useEffect's
\* fetchAppointments() in flight once the page is mounted
CalendarPage(mounted) ==
  /\ appointments = <<>>
  /\ pageLoading = TRUE
  /\ isDialogOpen = FALSE
  /\ editingAppointment = NoAppointment
  /\ listFetches = (IF mounted THEN 1 ELSE 0)
  /\ deletes = <<>>
  /\ clients = {}
  /\ services = <<>>
  /\ loading = FALSE
  /\ formData = EmptyForm
  /\ appointmentServices = <<>>
  /\ dataLoads = 0
  /\ itemLoads = <<>>
  /\ pc = "idle"
  /\ sub = NoSubmit
  /\ request = NoRequest
  /\ calls = <<>>
  /\ toast = "none"
  /\ clicks = 0

\* the /agenda route: CalendarPage mounted, Dashboard not
Init ==
  \E store \in Stores :
    StoreIs(store) /\ CalendarPage(TRUE) /\ DashboardUnmounted /\ NoCrudPage("/agenda")
    /\ LoggedIn

\* a user action, within the session's budget; a step of the event loop
User(action) ==
  clicks < MaxClicks /\ action /\ clicks' = clicks + 1 /\ UNCHANGED <<dashVars, crudVars, authVars>>
Auto(action) == action /\ UNCHANGED <<clicks, dashVars, crudVars, authVars>>

\* what the user can pick or type in the form
StatusInputs == Statuses
StartDateInputs == DateTimes
QuantityInputs == {<<>>, <<0>>, <<2>>, <<-1>>}
PriceInputs == {<<>>, <<1>>, <<-1>>}

Next ==
  \/ \E ok \in BOOLEAN : Auto(FetchAppointmentsResolve(ok))
  \/ \E id \in 1..MaxAppts : User(handleEdit(id))
  \/ User(EmptyStateAdd)
  \/ User(CloseDialog)
  \/ \E id \in 1..MaxAppts : User(handleDelete(id))
  \/ \E k \in 1..Len(deletes), ok \in BOOLEAN : Auto(handleDeleteResolve(k, ok))
  \/ \E ok \in BOOLEAN : Auto(fetchDataResolve(ok))
  \/ \E k \in 1..Len(itemLoads), ok \in BOOLEAN :
       Auto(fetchAppointmentServicesResolve(k, ok))
  \/ \E value \in StatusInputs : User(setStatus(value))
  \/ \E value \in ClientIds : User(setClient(value))
  \/ \E value \in StartDateInputs : User(setStartDate(value))
  \/ User(addService)
  \/ \E index \in 1..Len(appointmentServices) : User(removeService(index))
  \/ \E index \in 1..Len(appointmentServices), value \in ServiceIds :
       value \in DOMAIN services /\ User(updateService(index, "service_id", value))
  \/ \E index \in 1..Len(appointmentServices), raw \in QuantityInputs :
       User(updateService(index, "quantity", ParseQuantity(raw)))
  \/ \E index \in 1..Len(appointmentServices), raw \in PriceInputs :
       User(updateService(index, "price", ParsePrice(raw)))
  \/ User(handleSubmit)
  \/ \E ok \in BOOLEAN : Auto(updateResolve(ok))
  \/ \E ok \in BOOLEAN : Auto(deleteResolve(ok))
  \/ \E ok \in BOOLEAN : Auto(insertResolve(ok))
  \/ \E ok \in BOOLEAN : Auto(servicesResolve(ok))
  \/ \E ok \in BOOLEAN : Auto(transactionResolve(ok))

Spec == Init /\ [][Next]_vars

\* the line-item editor alone: the dialog is opened once and the list is edited
\* without limit on the number of edits
ItemQuantityInputs == {<<>>, <<0>>, <<2>>, <<-1>>}
ItemPriceInputs == {<<>>, <<1>>}

NextItems ==
  \/ \E ok \in BOOLEAN : Auto(FetchAppointmentsResolve(ok))
  \/ \E id \in 1..MaxAppts : Auto(handleEdit(id))
  \/ Auto(EmptyStateAdd)
  \/ \E ok \in BOOLEAN : Auto(fetchDataResolve(ok))
  \/ \E k \in 1..Len(itemLoads), ok \in BOOLEAN :
       Auto(fetchAppointmentServicesResolve(k, ok))
  \/ Auto(addService)
  \/ \E index \in 1..Len(appointmentServices) : Auto(removeService(index))
  \/ \E index \in 1..Len(appointmentServices), value \in ServiceIds :
       value \in DOMAIN services /\ Auto(updateService(index, "service_id", value))
  \/ \E index \in 1..Len(appointmentServices), raw \in ItemQuantityInputs :
       Auto(updateService(index, "quantity", ParseQuantity(raw)))
  \/ \E index \in 1..Len(appointmentServices), raw \in ItemPriceInputs :
       Auto(updateService(index, "price", ParsePrice(raw)))

SpecItems == Init /\ [][NextItems]_vars

\* the dialog in create mode alone: it is opened from the empty list of the
\* migrated store and submitted, with the status left at its default and the
\* added items left without a service, as often as the store has room for rows
InitCreate ==
  StoreIs(EmptyStore) /\ CalendarPage(TRUE) /\ DashboardUnmounted
  /\ NoCrudPage("/agenda") /\ LoggedIn

NextCreate ==
  \/ \E ok \in BOOLEAN : Auto(FetchAppointmentsResolve(ok))
  \/ Auto(EmptyStateAdd)
  \/ \E ok \in BOOLEAN : Auto(fetchDataResolve(ok))
  \/ \E value \in StartDateInputs : Auto(setStartDate(value))
  \/ Auto(addService)
  \/ Auto(handleSubmit)
  \/ \E ok \in BOOLEAN : Auto(insertResolve(ok))
  \/ \E ok \in BOOLEAN : Auto(servicesResolve(ok))

SpecCreate == InitCreate /\ [][NextCreate]_vars

\* the / route: Dashboard mounted over a store with transactions in it
Ledger ==
  <<[id |-> 1, type |-> "expense", amount |-> 3, category_id |-> NULL, client_id |-> NULL,
     transaction_date |-> <<2024, 12, 31>>],
    [id |-> 2, type |-> "income", amount |-> 7, category_id |-> NULL, client_id |-> "c1",
     transaction_date |-> <<2025, 1, 1>>],
    [id |-> 3, type |-> "expense", amount |-> 2, category_id |-> NULL, client_id |-> NULL,
     transaction_date |-> <<2025, 1, 31>>],
    [id |-> 4, type |-> "income", amount |-> 4, category_id |-> NULL, client_id |-> NULL,
     transaction_date |-> <<2025, 2, 1>>],
    [id |-> 5, type |-> "income", amount |-> 1, category_id |-> NULL, client_id |-> "c1",
     transaction_date |-> <<2024, 2, 29>>]>>
DashStores ==
  {[UsedStore EXCEPT !.transactions = SubSeq(Ledger, a, b)] :
     a \in 1..Len(Ledger), b \in 0..Len(Ledger)}
Nows == {<<2025, 1, 10, 9>>, <<2025, 1, 31, 23>>, <<2024, 2, 1, 0>>}

InitDash ==
  \E store \in DashStores, t \in Nows :
    StoreIs(store) /\ CalendarPage(FALSE) /\ DashboardMounted(t) /\ NoCrudPage("/")
    /\ LoggedIn

Dash(action) == action /\ UNCHANGED <<dbVars, calendarVars, crudVars, authVars>>

NextDash ==
  \/ \E ok \in BOOLEAN : Dash(clientsCountResolve(ok))
  \/ \E ok \in BOOLEAN : Dash(monthlyResolve(ok))
  \/ \E ok \in BOOLEAN : Dash(yearlyResolve(ok))
  \/ \E ok \in BOOLEAN : Dash(upcomingResolve(ok))

SpecDash == InitDash /\ [][NextDash]_vars

\* the /caixa route: CashFlow mounted over a store with transactions in it
CashStores == {[UsedStore EXCEPT !.transactions = SubSeq(Ledger, 1, b)] : b \in {0, 3}}
InitCash ==
  \E store \in CashStores :
    /\ StoreIs(store) /\ CalendarPage(FALSE) /\ DashboardUnmounted
    /\ CrudPage("/caixa", CashEmptyForm)
    /\ LoggedIn

\* a user action and an event-loop step of the mounted CRUD page
CrudUser(action) ==
  clicks < MaxClicks /\ action /\ clicks' = clicks + 1
  /\ UNCHANGED <<pageVars, formVars, dlgVars, saveVars, dashVars, authVars>>
CrudAuto(action) == action /\ UNCHANGED <<calendarVars, dashVars, authVars>>

CashTypeInputs == {"income", "expense"}
CategoryIds == {DbSelectCategories[i].id : i \in 1..Len(DbSelectCategories)}
CashAmountInputs == {<<>>, <<0>>, <<5>>, <<-1>>}

NextCash ==
  \/ \E ok \in BOOLEAN : CrudAuto(CashFlow_fetchDataResolve(ok))
  \/ CrudUser(CashFlow_newTransaction)
  \/ CrudUser(CashFlow_emptyStateAdd)
  \/ \E k \in 1..Len(records) : CrudUser(CashFlow_handleEdit(k))
  \/ CrudUser(route = "/caixa" /\ CloseRowDialog)
  \/ \E value \in CashTypeInputs : CrudUser(CashFlow_setType(value))
  \/ \E value \in CategoryIds : CrudUser(CashFlow_setCategory(value))
  \/ \E raw \in CashAmountInputs : CrudUser(CashFlow_setAmount(raw))
  \/ CrudUser(CashFlow_handleSubmit)
  \/ \E k \in 1..Len(rowCalls), ok \in BOOLEAN : CrudAuto(CashFlow_submitResolve(k, ok))
  \/ \E k \in 1..Len(records) : CrudUser(CashFlow_handleDelete(k))
  \/ \E k \in 1..Len(rowCalls), ok \in BOOLEAN : CrudAuto(CashFlow_deleteResolve(k, ok))


\* the /clientes route: Clients mounted
InitClients ==
  \E store \in Stores :
    /\ StoreIs(store) /\ CalendarPage(FALSE) /\ DashboardUnmounted
    /\ CrudPage("/clientes", ClientEmptyForm)
    /\ LoggedIn

ClientNameInputs == {"", "Ana", "Bia"}

NextClients ==
  \/ \E ok \in BOOLEAN : CrudAuto(Clients_fetchClientsResolve(ok))
  \/ CrudUser(Clients_newClient)
  \/ CrudUser(Clients_emptyStateAdd)
  \/ \E k \in 1..Len(records) : CrudUser(Clients_handleEdit(k))
  \/ CrudUser(route = "/clientes" /\ CloseRowDialog)
  \/ \E value \in ClientNameInputs : CrudUser(Clients_setName(value))
  \/ CrudUser(Clients_handleSubmit)
  \/ \E k \in 1..Len(rowCalls), ok \in BOOLEAN : CrudAuto(Clients_submitResolve(k, ok))
  \/ \E k \in 1..Len(records) : CrudUser(Clients_handleDelete(k))
  \/ \E k \in 1..Len(rowCalls), ok \in BOOLEAN : CrudAuto(Clients_deleteResolve(k, ok))

\* the /servicos route: Services mounted, with its ServiceDialog
InitServices ==
  \E store \in Stores :
    /\ StoreIs(store) /\ CalendarPage(FALSE) /\ DashboardUnmounted
    /\ CrudPage("/servicos", ServiceEmptyForm)
    /\ LoggedIn

BasePriceInputs == {<<>>, <<0>>, <<6>>, <<-1>>}

NextServices ==
  \/ \E ok \in BOOLEAN : CrudAuto(Services_fetchServicesResolve(ok))
  \/ CrudUser(Services_newService)
  \/ CrudUser(Services_emptyStateAdd)
  \/ \E k \in 1..Len(records) : CrudUser(Services_handleEdit(k))
  \/ CrudUser(route = "/servicos" /\ CloseRowDialog)
  \/ \E raw \in BasePriceInputs : CrudUser(ServiceDialog_setBasePrice(raw))
  \/ CrudUser(ServiceDialog_handleSubmit)
  \/ \E k \in 1..Len(rowCalls), ok \in BOOLEAN : CrudAuto(ServiceDialog_submitResolve(k, ok))
  \/ \E k \in 1..Len(records) : CrudUser(Services_handleDelete(k))
  \/ \E k \in 1..Len(rowCalls), ok \in BOOLEAN : CrudAuto(Services_deleteResolve(k, ok))

\* the three CRUD pages
InitCrud == InitCash \/ InitClients \/ InitServices
NextCrud == NextCash \/ NextClients \/ NextServices
SpecCrud == InitCrud /\ [][NextCrud]_vars

\* the Clients list and its search box alone: two clients of any of these names
\* and every term of up to MaxTerm of these characters
FilterNames == {"Ana Silva", "ANA", "Bia"}
TermChars == {"a", "A", "n", "i"}
SearchTerms == UNION {[1..n -> TermChars] : n \in 0..MaxTerm}

InitFilter ==
  /\ db_appointments = <<>>
  /\ db_appointment_services = <<>>
  /\ db_transactions = <<>>
  /\ db_services = SeedServices
  /\ db_clients \in [{"c1", "c2"} -> FilterNames]
  /\ db_nextId = 1
  /\ db_nextTransactionId = 1
  /\ db_nextClientId = 3
  /\ db_nextServiceId = Cardinality(ServiceIds) + 1
  /\ CalendarPage(FALSE) /\ DashboardUnmounted
  /\ CrudPage("/clientes", ClientEmptyForm)
  /\ LoggedIn

NextFilter ==
  \/ \E ok \in BOOLEAN : CrudAuto(Clients_fetchClientsResolve(ok))
  \/ \E value \in SearchTerms : CrudAuto(Clients_setSearchTerm(value))

SpecFilter == InitFilter /\ [][NextFilter]_vars

\* the two pages that total the ledger: "/" and "/caixa", one mounted per behaviour
InitMoney == InitDash \/ InitCash
NextMoney == NextDash \/ NextCash
SpecMoney == InitMoney /\ [][NextMoney]_vars

\* AuthProvider from its construction, over each content of the local key; the
\* pages below AuthWrapper are left unmounted
StorageValues == {NULL, "authenticated", "true"}
EmailInputs == {"", ValidEmail, "VALID@MAIL", "valid@mail ", "other@mail"}
PasswordInputs == {"", ValidPassword, "secret1", "Secret1 ", "other"}

InitAuth ==
  /\ StoreIs(EmptyStore) /\ CalendarPage(FALSE) /\ DashboardUnmounted /\ NoCrudPage("/")
  /\ isAuthenticated = FALSE
  /\ storage \in StorageValues
  /\ authStarted = FALSE
  /\ email = ""
  /\ password = ""
  /\ authToast = "none"

Auth(action) == action /\ UNCHANGED <<dbVars, calendarVars, dashVars, crudVars>>

NextAuth ==
  \/ Auth(AuthProvider_startup)
  \/ \E value \in EmailInputs : Auth(LoginForm_setEmail(value))
  \/ \E value \in PasswordInputs : Auth(LoginForm_setPassword(value))
  \/ Auth(LoginForm_handleSubmit)
  \/ Auth(logout)

SpecAuth == InitAuth /\ [][NextAuth]_vars

\* the application: the router mounts one page per behaviour
InitApp == Init \/ InitDash \/ InitCrud
NextApp == Next \/ NextDash \/ NextCrud
SpecApp == InitApp /\ [][NextApp]_vars


\* ================================================================ properties
\* -- helpers, written from the claims and not from the handlers
LineTotal(list) == SumSeq([i \in 1..Len(list) |-> list[i].price * list[i].quantity])
Ops(log) == [i \in 1..Len(log) |-> log[i].op]
IssuedOf(log, op) == {i \in 1..Len(log) : log[i].op = op}
Saves == pc # "idle" /\ pc' = "idle" /\ toast' = "success"
Completed(s) == s.formData.status = "completed" /\ Len(s.appointmentServices) > 0
RowsOf(rows, id) == {i \in 1..Len(rows) : rows[i].appointment_id = id}
ExpectedCalls(s) ==
  (IF s.appointment # NoAppointment
     THEN <<"update_appointment", "delete_services">>
     ELSE <<"insert_appointment">>)
  \o (IF Len(s.appointmentServices) > 0 THEN <<"insert_services">> ELSE <<>>)
  \o (IF Completed(s) THEN <<"insert_transaction">> ELSE <<>>)

\* C1: a save whose submitted status is "completed" and whose line-item list is
\* non-empty issues one transaction insert once the appointment and the line items
\* are stored, with type income, amount the sum of price * quantity over the
\* submitted list, the form's client_id (null when none) and the date part of the
\* form's start_date; a save of any other form issues none.
C1_TransactionIssued ==
  /\ Cardinality(IssuedOf(calls, "insert_transaction")) <= 1
  /\ pc = "insert_transaction" =>
       /\ Completed(sub)
       /\ request.arg.type = "income"
       /\ request.arg.amount = LineTotal(sub.appointmentServices)
       /\ request.arg.client_id =
            (IF sub.formData.client_id = "" THEN NULL ELSE sub.formData.client_id)
       /\ request.arg.transaction_date =
            <<sub.formData.start_date[1], sub.formData.start_date[2],
              sub.formData.start_date[3]>>
C1_TransactionDecided ==
  Saves => (Completed(sub) <=> Cardinality(IssuedOf(calls', "insert_transaction")) = 1)
C1_IncomeOnCompleted == []C1_TransactionIssued /\ [][C1_TransactionDecided]_vars
C1_Witness ==
  /\ toast = "success"
  /\ db_transactions =
       <<[id |-> 1, type |-> "income", amount |-> 11, category_id |-> NULL,
          client_id |-> "c1", transaction_date |-> <<2025, 1, 10>>]>>

\* C2: a save issues its store calls in the order update-or-insert of the
\* appointment, (edit only) delete of its line items, insert of the list,
\* transaction insert; each call is issued only when every earlier one has
\* resolved, and a save that succeeds has issued all that its form requires.
C2_OneAtATime ==
  pc # "idle" =>
    /\ Len(calls) <= Len(ExpectedCalls(sub))
    /\ Ops(calls) = SubSeq(ExpectedCalls(sub), 1, Len(calls))
    /\ \A i \in 1..(Len(calls) - 1) : calls[i].res # "pending"
    /\ calls[Len(calls)].res = "pending"
    /\ pc = calls[Len(calls)].op
C2_AllIssued == Saves => Ops(calls') = ExpectedCalls(sub)
C2_FixedOrder == []C2_OneAtATime /\ [][C2_AllIssued]_vars
C2_Witness ==
  /\ pc = "insert_transaction"
  /\ Ops(calls) = <<"update_appointment", "delete_services", "insert_services",
                    "insert_transaction">>

\* C3: when the insert of the line items fails during an edit, the handler ends
\* with the error toast and the store is left as the earlier steps made it: the
\* appointment row (if it still exists) carries the submitted data, the previous
\* line items are gone if their delete succeeded, none of the submitted items is
\* stored, and no earlier write is undone.
C3_ItemsInsertFails ==
  /\ pc = "insert_services"
  /\ sub.appointment # NoAppointment
  /\ pc' = "idle"
  /\ toast' = "error"
C3_LeftHalfSaved ==
  C3_ItemsInsertFails =>
    /\ dbVars' = dbVars
    /\ calls[1].res = "ok"
    /\ sub.appointment.id \in DOMAIN db_appointments' =>
         db_appointments'[sub.appointment.id] =
           [status |-> sub.formData.status,
            client_id |-> (IF sub.formData.client_id = "" THEN NULL
                           ELSE sub.formData.client_id),
            start_date |-> [date |-> <<sub.formData.start_date[1],
                                       sub.formData.start_date[2],
                                       sub.formData.start_date[3]>>,
                            hour |-> sub.formData.start_date[4]]]
    /\ calls[2].res = "ok" =>
         RowsOf(db_appointment_services', sub.appointment.id) = {}
C3_NotAtomic == [][C3_LeftHalfSaved]_vars
C3_Witness ==
  /\ pc = "idle"
  /\ toast = "error"
  /\ Ops(calls) = <<"update_appointment", "delete_services", "insert_services">>
  /\ calls[2].res = "ok"
  /\ 1 \in DOMAIN db_appointments
  /\ db_appointments[1].status = "cancelled"
  /\ RowsOf(db_appointment_services, 1) = {}
  /\ Len(appointmentServices) > 0

\* C4: when the transaction insert resolves, failed or not, the save ends as a
\* success: the success toast, the dialog closed, onSave called, loading cleared;
\* the appointment row and the line items stay as stored, and a failed insert
\* stores no transaction.
C4_TransactionResolves == pc = "insert_transaction" /\ pc' = "idle"
C4_EndsAsSuccess ==
  C4_TransactionResolves =>
    /\ toast' = "success"
    /\ isDialogOpen' = FALSE
    /\ listFetches' = listFetches + 1
    /\ loading' = FALSE
    /\ db_appointments' = db_appointments
    /\ db_appointment_services' = db_appointment_services
    /\ calls'[Len(calls')].res = "error" => db_transactions' = db_transactions
C4_FailureSwallowed == [][C4_EndsAsSuccess]_vars
C4_Witness ==
  /\ pc = "idle"
  /\ toast = "success"
  /\ ~isDialogOpen
  /\ calls # <<>>
  /\ calls[Len(calls)] = [op |-> "insert_transaction", res |-> "error"]
  /\ db_transactions = <<>>
  /\ RowsOf(db_appointment_services, 1) # {}

\* C5: after any sequence of addService, updateService and removeService,
\* getTotalValue() is the sum of price * quantity over the line items in the list.
C5_TotalIsSum == getTotalValue(appointmentServices) = LineTotal(appointmentServices)
C5_Witness ==
  /\ Len(appointmentServices) = 2
  /\ \A i \in 1..2 : appointmentServices[i].quantity = 2 /\ appointmentServices[i].price > 0
  /\ appointmentServices[1].price # appointmentServices[2].price

\* C6: updateService(index, "service_id", id) for a loaded service sets the item's
\* service_id, sets its price to the service's base_price and caches the service,
\* and touches nothing else; updateService(index, "price", p) sets the price and
\* leaves service_id, the cached service, the quantity and the other items alone.
C6_SelectSetsPrice ==
  \A index \in 1..Len(appointmentServices), id \in DOMAIN services :
    LET list == UpdatedServices(appointmentServices, index, "service_id", id)
    IN /\ Len(list) = Len(appointmentServices)
       /\ list[index] = [service_id |-> id, price |-> services[id],
                         quantity |-> appointmentServices[index].quantity,
                         service |-> [id |-> id, base_price |-> services[id]]]
       /\ \A j \in 1..Len(list) : j # index => list[j] = appointmentServices[j]
C6_PriceKeepsService ==
  \A index \in 1..Len(appointmentServices), raw \in ItemPriceInputs :
    LET list == UpdatedServices(appointmentServices, index, "price", ParsePrice(raw))
    IN /\ Len(list) = Len(appointmentServices)
       /\ list[index] = [service_id |-> appointmentServices[index].service_id,
                         price |-> ParsePrice(raw),
                         quantity |-> appointmentServices[index].quantity,
                         service |-> appointmentServices[index].service]
       /\ \A j \in 1..Len(list) : j # index => list[j] = appointmentServices[j]
C6_SelectThenOverride == C6_SelectSetsPrice /\ C6_PriceKeepsService
C6_Witness ==
  \E i \in 1..Len(appointmentServices) :
    /\ appointmentServices[i].service_id = "s2"
    /\ appointmentServices[i].service = [id |-> "s2", base_price |-> 5]
    /\ appointmentServices[i].price = 1

\* C7: every stored line item refers to an appointment that exists: deleting an
\* appointment removes its line items with it, and no line item is stored for an
\* appointment that is not there.
C7_NoOrphanLineItems ==
  \A i \in 1..Len(db_appointment_services) :
    db_appointment_services[i].appointment_id \in DOMAIN db_appointments
C7_Witness ==
  /\ 1 \notin DOMAIN db_appointments
  /\ 2 \in DOMAIN db_appointments
  /\ db_nextId = 3
  /\ RowsOf(db_appointment_services, 2) # {}
  /\ deletes = <<>>

\* C8: a pending load of line items is never cancelled: whatever the dialog shows
\* by then (closed, or open for another appointment), the load can resolve and
\* sets the in-memory list to the items of the appointment it was sent for.
C8_LoadSetsList(k) ==
  /\ Auto(fetchAppointmentServicesResolve(k, TRUE))
  /\ Len(appointmentServices') = Len(DbSelectServicesOf(itemLoads[k]))
  /\ \A i \in 1..Len(appointmentServices') :
       /\ appointmentServices'[i].service_id = DbSelectServicesOf(itemLoads[k])[i].service_id
       /\ appointmentServices'[i].price = DbSelectServicesOf(itemLoads[k])[i].price
       /\ appointmentServices'[i].quantity = DbSelectServicesOf(itemLoads[k])[i].quantity
C8_NeverCancelled ==
  \A k \in 1..Len(itemLoads) : ENABLED C8_LoadSetsList(k)
C8_Witness ==
  /\ isDialogOpen
  /\ editingAppointment.id = 2
  /\ itemLoads = <<>>
  /\ Len(db_appointment_services) = 3
  /\ Len(appointmentServices) = 2
  /\ \A i \in 1..2 : appointmentServices[i].price = db_appointment_services[i].price

\* C9 (as the code has it): the dashboard issues four store queries, one after
\* another in the order clients count, month's transactions, year's income,
\* upcoming appointments, each only when the previous one has resolved, and sets
\* the statistics only after all four have resolved.
DashboardQueries ==
  <<"clients_count", "monthly_transactions", "yearly_income", "upcoming_appointments">>
C10_FailureAborts ==
  (dashPc = "idle" /\ \E i \in 1..Len(dashCalls) : dashCalls[i].res = "error")
    => stats = ZeroStats

\* C12: when the month's query and the year's query have succeeded, the monthly
\* income and expense are the sums over exactly the stored transactions dated in
\* the calendar month of "now" (its first and last day included), and the yearly
\* income is the sum over exactly the stored income transactions dated in the
\* calendar year of "now".
SumWhere(rows, Keep(_)) ==
  SumSeq([i \in 1..Len(rows) |-> IF Keep(rows[i]) THEN rows[i].amount ELSE 0])
InMonthOfNow(r) ==
  r.transaction_date[1] = now[1] /\ r.transaction_date[2] = now[2]
InYearOfNow(r) == r.transaction_date[1] = now[1]
C12_CalendarRanges ==
  ~dashLoading =>
    /\ dashCalls[2].res = "ok" =>
         /\ stats.monthlyIncome =
              SumWhere(db_transactions, LAMBDA r : InMonthOfNow(r) /\ r.type = "income")
         /\ stats.monthlyExpense =
              SumWhere(db_transactions, LAMBDA r : InMonthOfNow(r) /\ r.type = "expense")
    /\ dashCalls[3].res = "ok" =>
         stats.yearlyIncome =
           SumWhere(db_transactions, LAMBDA r : InYearOfNow(r) /\ r.type = "income")
C12_Witness ==
  /\ ~dashLoading
  /\ now = <<2025, 1, 10, 9>>
  /\ dashCalls[2].res = "ok"
  /\ dashCalls[3].res = "ok"
  /\ Len(db_transactions) = Len(Ledger)
  /\ stats.monthlyIncome = 7
  /\ stats.monthlyExpense = 2
  /\ stats.yearlyIncome = 11

\* ---------------------------------------------------------------- C11
\* income counted positive and expense negative, row by row
SignedSum(list) ==
  SumSeq([i \in 1..Len(list) |->
            IF list[i].type = "income" THEN list[i].amount
            ELSE IF list[i].type = "expense" THEN 0 - list[i].amount
            ELSE 0])

\* C11: the balance is the income sum minus the expense sum over the same list.
\* Every stats record the dashboard holds has monthlyBalance = monthlyIncome -
\* monthlyExpense, which is the signed sum of the month's rows it fetched; the
\* cash-flow page's balance is totalIncome - totalExpense, the signed sum of the
\* transactions it fetched.
C11_BalanceIsIncomeMinusExpense ==
  /\ stats.monthlyBalance = stats.monthlyIncome - stats.monthlyExpense
  /\ (~dashLoading /\ dashData.monthlyTransactions # <<>>)
       => stats.monthlyBalance = SignedSum(dashData.monthlyTransactions[1])
  /\ route = "/caixa"
       => /\ balance(records) = SignedSum(records)
          /\ totalIncome(records) = SumWhere(records, LAMBDA t : t.type = "income")
          /\ totalExpense(records) = SumWhere(records, LAMBDA t : t.type = "expense")

\* the cash-flow page shows a fetched list with income 7 and expenses 3 and 2
C11_Witness ==
  /\ route = "/caixa"
  /\ ~rowsLoading
  /\ Len(records) = 3
  /\ totalIncome(records) = 7
  /\ totalExpense(records) = 5
  /\ balance(records) = 2

\* ---------------------------------------------------------------- C19
\* the transaction writes in flight, of the cash-flow form and of the appointment form
TransactionWrites ==
  {rowCalls[k].data : k \in {j \in 1..Len(rowCalls) :
                               rowCalls[j].op \in {"insert_transaction", "update_transaction"}}}
  \cup (IF request # NoRequest /\ request.op = "insert_transaction" THEN {request.arg} ELSE {})

\* C19 as stated: every transaction row written by the application, through the
\* cash-flow form or generated from a completed appointment, has amount > 0.
C19_AmountPositive ==
  /\ \A i \in 1..Len(db_transactions) : db_transactions[i].amount > 0
  /\ \A data \in TransactionWrites : data.amount > 0

\* C19 as the code has it: every transaction row written by the application has
\* amount >= 0; the forms block negative amounts (min="0" on the amount and price
\* inputs, min="1" on quantity) and accept zero.
C19_AmountNotNegative ==
  /\ \A i \in 1..Len(db_transactions) : db_transactions[i].amount >= 0
  /\ \A data \in TransactionWrites : data.amount >= 0

\* the cash-flow form has stored a transaction of amount 0
C19_Witness ==
  /\ route = "/caixa"
  /\ rowToast = "success"
  /\ \E i \in 1..Len(db_transactions) : db_transactions[i].amount = 0

\* ---------------------------------------------------------------- C20
\* the line items the form is writing or has written
PersistedItems ==
  {db_appointment_services[i] : i \in 1..Len(db_appointment_services)}
  \cup (IF request.op = "insert_services"
          THEN {request.arg[i] : i \in 1..Len(request.arg)} ELSE {})

\* C20 as stated: every line item in the form, and every line item the form
\* persists, has quantity >= 1 after any sequence of add, quantity-update and
\* remove operations.
C20_QuantityAtLeastOne ==
  /\ \A i \in 1..Len(appointmentServices) : appointmentServices[i].quantity >= 1
  /\ \A item \in PersistedItems : item.quantity >= 1

\* C20 as the code has it: every line item the form persists has quantity >= 1,
\* and a line item in the form never has quantity 0 or an empty quantity; a
\* negative quantity typed by the user stays in the form, and the form cannot be
\* submitted while it holds one.
C20_PersistedQuantityAtLeastOne ==
  /\ \A item \in PersistedItems : item.quantity >= 1
  /\ \A i \in 1..Len(appointmentServices) : appointmentServices[i].quantity # 0
  /\ (\E i \in 1..Len(appointmentServices) : appointmentServices[i].quantity < 1)
       => ~ENABLED handleSubmit

\* the form has saved the first line item of appointment 1 with its quantity
\* changed from 1 to 2
C20_Witness ==
  /\ pc = "idle"
  /\ toast = "success"
  /\ \E i \in 1..Len(db_appointment_services) :
       /\ db_appointment_services[i].appointment_id = 1
       /\ db_appointment_services[i].service_id = "s1"
       /\ db_appointment_services[i].quantity = 2

\* ---------------------------------------------------------------- C16
\* the user picks a status in the open form
C16_Pick(value) == Auto(setStatus(value)) /\ formData'.status = value

\* the store takes the update in flight and the row, unless deleted meanwhile,
\* has the status sent
C16_Persist ==
  /\ Auto(updateResolve(TRUE))
  /\ pc' = "delete_services"
  /\ request.arg.id \in DOMAIN db_appointments
       => db_appointments'[request.arg.id].status = request.arg.data.status

\* every status can be picked, and an update in flight carries the status of
\* the submitted form and can succeed
C16_NothingRejected ==
  /\ (isDialogOpen /\ editingAppointment # NoAppointment)
       => (\A value \in Statuses : ENABLED C16_Pick(value))
  /\ (pc = "update_appointment")
       => (request.arg.data.status = sub.formData.status /\ ENABLED C16_Persist)

\* a create form opens with scheduled; a submit sends the status of the form
C16_FormStatus ==
  /\ (~isDialogOpen /\ isDialogOpen' /\ editingAppointment' = NoAppointment)
       => (formData'.status = "scheduled")
  /\ (pc = "idle" /\ pc' = "update_appointment")
       => (request'.arg.data.status = formData.status)

\* C16: a create form opens with status scheduled, and no status transition is
\* rejected by the client or by the store: whatever the persisted status of the
\* appointment being edited, each of the three statuses can be picked, a submit
\* sends the picked status, and the store's update can succeed and then leaves
\* the row with the status sent.
C16_AnyStatusToAnyStatus == []C16_NothingRejected /\ [][C16_FormStatus]_vars

\* appointment 2, persisted as completed, has been saved back to scheduled
C16_Witness ==
  /\ pc = "idle"
  /\ toast = "success"
  /\ sub = NoSubmit
  /\ editingAppointment.id = 2
  /\ editingAppointment.status = "completed"
  /\ db_appointments[2].status = "scheduled"

\* ---------------------------------------------------------------- C17
\* re-opening an appointment and re-saving the list as loaded writes back the
\* rows stored, whatever the base prices are now
C17_RoundTrip ==
  \A id \in DOMAIN db_appointments :
    ServicesData(id, LoadedServices(DbSelectServicesOf(id))) = DbSelectServicesOf(id)

\* a write to the services table leaves every line item as it was
C17_ServiceEditKeepsItems ==
  db_services' # db_services => db_appointment_services' = db_appointment_services

\* C17: a persisted line item's price is a snapshot: editing the referenced
\* service's base_price afterwards does not change it, and re-opening and
\* re-saving the appointment without re-selecting the service writes back the
\* same price.
C17_PriceIsSnapshot == []C17_RoundTrip /\ [][C17_ServiceEditKeepsItems]_vars

\* service s2 has been edited from base price 5 to 6 while a line item of s2
\* is stored at price 4
C17_Witness ==
  /\ route = "/servicos"
  /\ rowToast = "success"
  /\ "s2" \in DOMAIN db_services
  /\ db_services["s2"] = 6
  /\ \E i \in 1..Len(db_appointment_services) :
       /\ db_appointment_services[i].service_id = "s2"
       /\ db_appointment_services[i].price = 4

\* ---------------------------------------------------------------- C15
\* a store write of the mounted CRUD page resumes its handler
WriteResolves == Len(rowCalls') < Len(rowCalls)

\* the handler took the success path: the success toast and the refetch
WriteSucceeded == rowToast' = "success" /\ rowFetches' = rowFetches + 1

\* the handler took the failure path: the error toast, and the store, the list,
\* the dialog, the editing target and the form as they were
FailureLeavesState ==
  /\ rowToast' = "error"
  /\ UNCHANGED <<dbVars, records, rowDialogOpen, editingRow, rowForm, rowFetches>>

\* C15: when a store call of a create, edit or delete operation of a CRUD page
\* fails, a notification is shown and the prior state is left as it was: the
\* in-memory list is unchanged, the dialog stays as it is (open) and the form
\* fields keep their values. Every write that resolves either succeeds or takes
\* exactly this failure path, and the failure path is open to every write.
C15_FailureKeepsState ==
  /\ [][WriteResolves => (WriteSucceeded \/ FailureLeavesState)]_vars
  /\ [](\A k \in 1..Len(rowCalls) :
          ENABLED (/\ rowCalls' = RemoveAt(rowCalls, k)
                   /\ FailureLeavesState
                   /\ NextCrud))

\* the Clients form, submitted with the name Bia, has failed: the dialog is still
\* open with Bia in the form, and the list and the store are as loaded
C15_Witness ==
  /\ route = "/clientes"
  /\ rowToast = "error"
  /\ rowCalls = <<>>
  /\ rowDialogOpen
  /\ rowForm.name = "Bia"
  /\ Len(records) = 1
  /\ records[1].name = "Ana"
  /\ db_clients = [c \in ClientIds |-> "Ana"]

\* ---------------------------------------------------------------- C13
\* no store call appears twice in the log of one operation
OnceEach(log) == \A i, j \in 1..Len(log) : log[i].op = log[j].op => i = j

\* a rejected call is the last call of its operation
RejectionIsLast(log) == \A i \in 1..Len(log) : log[i].res = "error" => i = Len(log)

\* C13: within one user operation every store call is attempted exactly once,
\* and when a store call is rejected the error is reported to the user and the
\* operation aborts without issuing any further store call: in the appointment
\* form's save and in the dashboard's aggregation a rejected call is the last one
\* issued, and a save with a rejected call ends with the error notification.
C13_RejectionAborts ==
  /\ OnceEach(calls) /\ OnceEach(dashCalls)
  /\ RejectionIsLast(calls) /\ RejectionIsLast(dashCalls)
  /\ (pc = "idle" /\ \E i \in 1..Len(calls) : calls[i].res = "error") => toast = "error"

\* ---------------------------------------------------------------- C14
\* a mutating operation of a page ends: a write of a CRUD page resolves, a delete
\* of the calendar page resolves, or the appointment form's save returns
OperationEnds ==
  \/ WriteResolves
  \/ Len(deletes') < Len(deletes)
  \/ (pc # "idle" /\ pc' = "idle")

\* the page calls its fetch function
Refetches == rowFetches' = rowFetches + 1 \/ listFetches' = listFetches + 1

\* the list a full fetch of the mounted page's table returns
FullList ==
  IF route = "/caixa" THEN NewestFirst(db_transactions)
  ELSE IF route = "/clientes" THEN DbSelectClients
  ELSE DbSelectServices

\* the in-memory lists change only by taking the result of a full fetch
OnlyFetchesSetLists ==
  /\ records' # records => (rowFetches' = rowFetches - 1 /\ records' = FullList)
  /\ appointments' # appointments => listFetches' = listFetches - 1

EndsInSuccess ==
  \/ (WriteResolves /\ rowToast' = "success")
  \/ (Len(deletes') < Len(deletes) /\ listFetches' = listFetches + 1)
  \/ (pc # "idle" /\ pc' = "idle" /\ toast' = "success")

AuthMatchesKey == authStarted => (isAuthenticated <=> storage = "authenticated")

\* what startup, login and logout do to the flag and the key
AuthSteps ==
  /\ (~authStarted /\ authStarted')
       => (isAuthenticated' = (storage = "authenticated") /\ storage' = storage)
  /\ (authStarted /\ ~isAuthenticated /\ (isAuthenticated' \/ authToast' # authToast))
       => IF email = ValidEmail /\ password = ValidPassword
            THEN isAuthenticated' /\ storage' = "authenticated"
            ELSE ~isAuthenticated' /\ storage' = storage
  /\ (isAuthenticated /\ ~isAuthenticated') => storage' = NULL
  /\ (isAuthenticated' # isAuthenticated \/ storage' # storage)
       => (~authStarted \/ authToast' \in {"success", "logout"})

\* C18: after startup and any sequence of login and logout calls,
\* isAuthenticated is true exactly when the local key framebox-auth holds
\* "authenticated": a startup with the key set becomes authenticated, a login
\* with the fixed credential pair sets both, a login with any other pair changes
\* neither, and logout clears both.
C18_AuthenticatedIffKey == []AuthMatchesKey /\ [][AuthSteps]_vars

\* started without the key, logged in with the fixed pair
C18_Witness ==
  /\ authStarted
  /\ isAuthenticated
  /\ storage = "authenticated"
  /\ authToast = "success"
  /\ route = "/"
  /\ dashPc = "idle"

\* ---------------------------------------------------------------- C25
\* the delete of the existing line items resumes the save with a failure
C25_DeleteFails ==
  /\ pc = "delete_services"
  /\ pc' # "delete_services"
  /\ calls'[2] = [op |-> "delete_services", res |-> "error"]

\* the save goes on: no row is removed, nothing is reported, and the current
\* list, when it has items, is sent for insertion
C25_SaveContinues ==
  C25_DeleteFails =>
    /\ db_appointment_services' = db_appointment_services
    /\ toast' # "error"
    /\ IF Len(sub.appointmentServices) > 0
         THEN /\ pc' = "insert_services"
              /\ request'.arg = ServicesData(sub.appointment.id, sub.appointmentServices)
         ELSE pc' \in {"insert_transaction", "idle"}

\* the insert after a failed delete puts the list on top of the old rows, and
\* the save ends as a success or goes on to the transaction step
C25_InsertsOnTop ==
  (/\ pc = "insert_services"
   /\ calls[Len(calls) - 1] = [op |-> "delete_services", res |-> "error"]
   /\ calls'[Len(calls)].res = "ok")
  => /\ db_appointment_services' = db_appointment_services \o request.arg
     /\ (pc' = "idle" /\ toast' = "success") \/ pc' = "insert_transaction"

\* C25: in an edit save the result of the delete of the existing line items is
\* not examined: when that delete fails the save continues and inserts the
\* current list on top of the old rows, so the appointment ends with both the
\* old and the new line items, and the save is reported as successful.
C25_DeleteResultUnread == [][C25_SaveContinues /\ C25_InsertsOnTop]_vars

\* appointment 1, stored with two line items, saved with its delete failed: four
\* line items and the success toast
C25_Witness ==
  /\ pc = "idle"
  /\ toast = "success"
  /\ Len(calls) >= 3
  /\ calls[2] = [op |-> "delete_services", res |-> "error"]
  /\ calls[3] = [op |-> "insert_services", res |-> "ok"]
  /\ editingAppointment.id = 1
  /\ Cardinality(RowsOf(db_appointment_services, 1)) = 4

\* ---------------------------------------------------------------- C23
\* a save ends in success with every store call answered without error
AllCallsOk(log) == \A i \in 1..Len(log) : log[i].res = "ok"

\* such a save of a completed appointment with line items adds one income row
\* of the list's total, whatever the table already holds
C23_OneMore ==
  (Saves /\ Completed(sub) /\ AllCallsOk(calls'))
  => /\ Len(db_transactions') = Len(db_transactions) + 1
     /\ db_transactions'[Len(db_transactions')].type = "income"
     /\ db_transactions'[Len(db_transactions')].amount = getTotalValue(sub.appointmentServices)

\* no step of the calendar page or of the dialog takes a transaction away
C23_NoneRemoved ==
  /\ Len(db_transactions') >= Len(db_transactions)
  /\ SubSeq(db_transactions', 1, Len(db_transactions)) = db_transactions

\* C23: the auto-generated income transaction is not deduplicated: each save of
\* an appointment with status completed and at least one line item, all of
\* whose store calls succeed, inserts one more transaction, and no save and no
\* appointment delete removes a transaction, so k such saves leave k of them.
C23_NotDeduplicated == [][C23_OneMore /\ C23_NoneRemoved]_vars

\* two saves of the same completed appointment have left two income rows that
\* differ in their id only
C23_Witness ==
  /\ pc = "idle"
  /\ toast = "success"
  /\ \E i, j \in 1..Len(db_transactions) :
       /\ i < j
       /\ db_transactions[i].type = "income"
       /\ db_transactions[i].amount = db_transactions[j].amount
       /\ db_transactions[i].client_id = db_transactions[j].client_id
       /\ db_transactions[i].transaction_date = db_transactions[j].transaction_date
       /\ db_transactions[j].type = "income"

\* ---------------------------------------------------------------- C24
\* the dialog opens on an appointment: the list in memory stays as it was
C24_OpenKeepsList ==
  (~isDialogOpen /\ isDialogOpen' /\ editingAppointment' # NoAppointment)
  => appointmentServices' = appointmentServices

\* a load resolves: the list is replaced by the loaded rows, or, when the load
\* failed, left as it was
C24_LoadResolves ==
  Len(itemLoads') < Len(itemLoads)
  => \E k \in 1..Len(itemLoads) :
       /\ itemLoads' = RemoveAt(itemLoads, k)
       /\ appointmentServices' \in
            {appointmentServices, LoadedServices(DbSelectServicesOf(itemLoads[k]))}

\* the load of the edited appointment is still in flight
LoadInFlight(id) == \E k \in 1..Len(itemLoads) : itemLoads[k] = id

\* the submit of an edit takes the list in memory, whether the load of the
\* appointment's items has resolved or not
C24_SubmitTakesMemory ==
  (loading' /\ ~loading /\ editingAppointment # NoAppointment)
  => /\ pc' = "update_appointment"
     /\ sub'.appointment = editingAppointment
     /\ sub'.appointmentServices = appointmentServices

\* the edit save deletes every persisted item of the appointment and inserts
\* the submitted list
C24_DeletesAndInserts ==
  /\ (pc = "delete_services" /\ calls'[2].res = "ok")
       => RowsOf(db_appointment_services', sub.appointment.id) = {}
  /\ (pc = "insert_services" /\ calls'[Len(calls)].res = "ok"
        /\ sub.appointment # NoAppointment)
       => db_appointment_services' =
            db_appointment_services \o
              ServicesData(sub.appointment.id, sub.appointmentServices)

\* C24: when editing, if the load of the appointment's existing line items
\* failed or has not resolved at submit time, the save still deletes every
\* persisted line item of that appointment and inserts whatever list is in
\* memory, which is empty or left over from the dialog's earlier use: the list
\* is not cleared when the dialog opens in edit mode.
C24_SavesUnloadedList ==
  [][C24_OpenKeepsList /\ C24_LoadResolves /\ C24_SubmitTakesMemory
       /\ C24_DeletesAndInserts]_vars

\* appointment 1, stored with two line items, was submitted and saved while the
\* load of its items was still in flight: the save succeeded and no line item
\* of the appointment is left
C24_Witness ==
  /\ pc = "idle"
  /\ toast = "success"
  /\ editingAppointment # NoAppointment
  /\ editingAppointment.id = 1
  /\ LoadInFlight(1)
  /\ calls = <<[op |-> "update_appointment", res |-> "ok"],
               [op |-> "delete_services", res |-> "ok"]>>
  /\ RowsOf(db_appointment_services, 1) = {}

\* ---------------------------------------------------------------- C28
\* C28: every started appointment save ends with loading = false on every
\* exit path (success, failure of the appointment write, of the line-item
\* insert, of the transaction insert): loading is true exactly while the save
\* is in flight, and while it is true the submit control is disabled, so at
\* most one save of the dialog is in flight.
C28_LoadingBracketsSave ==
  /\ loading <=> pc # "idle"
  /\ loading => ~ENABLED handleSubmit
  /\ pc # "idle" => sub # NoSubmit /\ Len(calls) >= 1
                      /\ calls[Len(calls)] = [op |-> pc, res |-> "pending"]
  /\ pc = "idle" => sub = NoSubmit

\* a save has ended on the failure of its line-item insert with loading back
\* to false, and the dialog, still open, can be submitted again
C28_Witness ==
  /\ pc = "idle"
  /\ ~loading
  /\ toast = "error"
  /\ Len(calls) >= 2
  /\ calls[Len(calls)] = [op |-> "insert_services", res |-> "error"]
  /\ ENABLED handleSubmit

\* ---------------------------------------------------------------- C30
\* a store call of the save before the transaction step resumes with a failure
C30_FailsBeforeTransaction ==
  /\ pc \in {"insert_appointment", "update_appointment", "insert_services"}
  /\ pc' # pc
  /\ calls'[Len(calls)].res = "error"

\* the handler is left at once: nothing more is sent, the transactions are as
\* they were, the error toast is shown, the dialog is as the user left it (open
\* unless it was closed while the save was in flight) and the list is not
\* fetched again
C30_Aborted ==
  C30_FailsBeforeTransaction =>
    /\ pc' = "idle"
    /\ calls' = Settle(calls, "error")
    /\ db_transactions' = db_transactions
    /\ toast' = "error"
    /\ isDialogOpen' = isDialogOpen
    /\ listFetches' = listFetches

\* C30: when an appointment-save store call before the transaction step fails
\* (the appointment insert or update, or the line-item insert), no transaction
\* is inserted, the success notification is not shown, the dialog is not
\* closed and onSave is not called.
C30_FailureStopsSave == [][C30_Aborted]_vars

\* a save of a completed appointment with a line item has ended on the failure
\* of its update: no transaction, the error toast, the dialog open
C30_Witness ==
  /\ pc = "idle"
  /\ toast = "error"
  /\ isDialogOpen
  /\ calls = <<[op |-> "update_appointment", res |-> "error"]>>
  /\ formData.status = "completed"
  /\ Len(appointmentServices) > 0
  /\ db_transactions = <<>>

\* ---------------------------------------------------------------- C26
\* the line-item insert of a create save resumes with a failure: the row the
\* save inserted stays, without line items, and the dialog is left as it is, in
\* create mode with its form
C26_RowStays ==
  (/\ pc = "insert_services"
   /\ sub.appointment = NoAppointment
   /\ pc' = "idle"
   /\ calls'[Len(calls)].res = "error")
  => /\ db_appointments' = db_appointments
     /\ sub.appointmentId \in DOMAIN db_appointments
     /\ db_appointments[sub.appointmentId] = AppointmentData(sub.formData)
     /\ RowsOf(db_appointment_services', sub.appointmentId) = {}
     /\ isDialogOpen' = isDialogOpen
     /\ editingAppointment' = NoAppointment
     /\ formData' = formData
     /\ appointmentServices' = appointmentServices

\* every appointment insert that succeeds adds a row under a new id, whatever
\* rows the table holds
C26_FurtherRow ==
  (pc = "insert_appointment" /\ calls'[1].res = "ok")
  => /\ db_nextId \notin DOMAIN db_appointments
     /\ DOMAIN db_appointments' = DOMAIN db_appointments \cup {db_nextId}
     /\ db_appointments'[db_nextId] = AppointmentData(sub.formData)
     /\ \A i \in DOMAIN db_appointments : db_appointments'[i] = db_appointments[i]

\* C26: in create mode, when the line-item insert fails the appointment row
\* already inserted stays persisted with no line items, the dialog stays open
\* in create mode, and each resubmission of the same form inserts a further
\* appointment row, so n failed-then-retried submits leave n+1 rows for one
\* intended appointment.
C26_RetryDuplicates == [][C26_RowStays /\ C26_FurtherRow]_vars

\* a create save has ended twice on the failure of its line-item insert: two
\* equal appointment rows without line items, and the dialog still open in
\* create mode on the same form
C26_Witness ==
  /\ pc = "idle"
  /\ toast = "error"
  /\ isDialogOpen
  /\ editingAppointment = NoAppointment
  /\ calls = <<[op |-> "insert_appointment", res |-> "ok"],
               [op |-> "insert_services", res |-> "error"]>>
  /\ DOMAIN db_appointments = {1, 2}
  /\ db_appointments[1] = db_appointments[2]
  /\ db_appointment_services = <<>>
  /\ Len(appointmentServices) > 0

\* ---------------------------------------------------------------- C27
\* the form a page's dialog starts a new row from
C27_EmptyForm == IF route = "/caixa" THEN CashEmptyForm ELSE ClientEmptyForm

\* the Clients or Transactions dialog opens: on the row of the list that was
\* clicked for editing, or else on no row and the empty form
C27_RowDialogOpens ==
  (route \in {"/clientes", "/caixa"} /\ ~rowDialogOpen /\ rowDialogOpen')
  => \/ \E k \in 1..Len(records) : editingRow' = <<records[k]>>
     \/ editingRow' = <<>> /\ rowForm' = C27_EmptyForm

\* the appointment dialog opens: on the card that was clicked for editing, or
\* else on no appointment and the empty form
C27_AppointmentDialogOpens ==
  (~isDialogOpen /\ isDialogOpen')
  => \/ \E id \in DOMAIN appointments : editingAppointment' = appointments[id]
     \/ /\ editingAppointment' = NoAppointment
        /\ formData' = EmptyForm
        /\ appointmentServices' = <<>>

\* C27: every create entry point of the Clients, Transactions and Appointments
\* pages opens its dialog with no editing target and an empty form, so that
\* submitting inserts a new row; no entry point opens the dialog with an
\* editing target left over from an earlier edit that was closed without
\* saving.
C27_CreateOpensFresh == [][C27_RowDialogOpens /\ C27_AppointmentDialogOpens]_vars

\* ---------------------------------------------------------------- C29
\* C29: in the transaction form opened for a new transaction, after any
\* sequence of type changes and category selections, a non-empty category_id
\* refers to a category whose type equals the form's type: changing the type
\* clears the category, and only categories of the current type can be
\* selected.
C29_CategoryOfFormType ==
  (route = "/caixa" /\ rowForm.category_id # "")
  => \E i \in 1..Len(categories) :
       /\ categories[i].id = rowForm.category_id
       /\ categories[i].type = rowForm.type

\* a new transaction's form holds an income category that was picked after the
\* type had been switched to expense and back
C29_Witness ==
  /\ route = "/caixa"
  /\ rowDialogOpen
  /\ editingRow = <<>>
  /\ rowForm.type = "income"
  /\ rowForm.category_id = "k3"
  /\ clicks >= 4

\* ---------------------------------------------------------------- C22
\* term occurs in str at some offset, character for character
OccursIn(term, str) ==
  \E offset \in 0..Len(str) :
    /\ offset + Len(term) <= Len(str)
    /\ \A i \in 1..Len(term) : str[offset + i] = term[i]

Listed(client) == \E k \in 1..Len(filteredClients) : filteredClients[k] = client

\* C22: the clients list filter is a case-insensitive substring match: for
\* every client and search term, the client is listed whenever the lower-cased
\* term is a substring of the lower-cased name (so "ana" matches "Ana Silva"),
\* and the empty term lists every client.
C22_CaseInsensitiveSubstring ==
  route = "/clientes" =>
    /\ \A k \in 1..Len(records) :
         OccursIn(toLowerCase(searchTerm), toLowerCase(Chars(records[k].name)))
           => Listed(records[k])
    /\ searchTerm = <<>> => filteredClients = records

\* the term "ana" lists the client named "Ana Silva" and not the one named "Bia"
C22_Witness ==
  /\ route = "/clientes"
  /\ searchTerm = <<"a", "n", "a">>
  /\ \E k \in 1..Len(records) : records[k].name = "Ana Silva" /\ Listed(records[k])
  /\ \E k \in 1..Len(records) : records[k].name = "Bia" /\ ~Listed(records[k])

====
